---- MODULE Spec2Model ----
(***************************************************************************)
(* Model of the GCS object lister: the Fetch Orchestrator (FetchManager,   *)
(* app/fetcher.py) and the Catalog Store (DatabaseManager, app/db.py).     *)
(*                                                                         *)
(* Python's None is the empty tuple <<>> and a present value v is <<v>>,   *)
(* so optional fields of different types can be compared.  Object names   *)
(* are positive integers (their order stands for the text order of the     *)
(* names); run identifiers are tuples of one-character strings, the text   *)
(* strftime produces.                                                      *)
(***************************************************************************)
EXTENDS Integers, Sequences, FiniteSets, TLC

VARIABLES
    now,            \* the wall clock, in ticks (TicksPerSecond ticks a second)
    up,             \* up[p]: the FetchManager of process p has been constructed
    lock_file,      \* the ".lock" file of the store directory: [exists, mtime]
    files,          \* the "<db_name>.db" files of the store directory: db_name -> store
    thread_lock,    \* thread_lock[p]: FetchManager._thread_lock of p is held
    current_fetch,  \* current_fetch[p]: FetchManager._current_fetch (None or Some(record))
    starter,        \* starter[p]: where the caller of start_fetch stands ("idle", "cleanup")
    threads,        \* the ingestion threads ever launched: id -> thread record
                    \* (cleaned: its _cleanup_fetch ran; batches: the lengths of the
                    \* batches it has upserted)
    pending,        \* pending[p]: the request in progress on p between two of its
                    \* steps (None or Some([op, db_name])): a delete request
                    \* whose check of the running fetch has passed, a
                    \* clear-manifest request that has cleared the links
    response,       \* response[p]: what the last call that returned on p returned
    history         \* the last step taken other than a query (last) and, when it
                    \* was a direct call of insert_objects_batch, its batch and
                    \* the Catalog Entries
                    \* the store held before it; when it loaded or stored a
                    \* manifest, the document (doc), whether its fetch
                    \* succeeded (fetch_ok) and the Catalog Entries before
                    \* it; when it ran a link pass, the entries whose UPDATE
                    \* raised (skipped); the number of statements the last
                    \* query request ran on its store (queries)

vars == <<now, up, lock_file, files, thread_lock, current_fetch, starter,
          pending, threads, response, history>>

----------------------------------------------------------------------------
(* Bounds of the model.                                                     *)

\* clock ticks below one hour that a behaviour may take
MaxTicks == 2
\* long pauses (of more than StaleHours hours) in a behaviour
MaxPauses == 1
\* ingestion threads launched in a behaviour
MaxRuns == 2
\* longest listing the object lister yields in the orchestrator specifications
MaxListing == 1
\* resolution of the clock: ticks per second
TicksPerSecond == 2
\* object names and longest batch in direct calls of insert_objects_batch
MaxNames == 2
MaxBatch == 2
\* Manifest Entry ids that AUTOINCREMENT gives out in a behaviour
MaxEntryId == 3

(* Program constants.                                                       *)
batch_size == 1000
StaleHours == 4
SecondsPerHour == 3600

Procs == {1, 2}
ThreadIds == 1..MaxRuns
Buckets == {"bucket"}
Prefixes == {<<"rel/">>}

None == <<>>
Some(v) == <<v>>
IsSome(o) == o # <<>>
Get(o) == o[1]

\* object names are the integers 1..NameBound
NameBound == 2 * batch_size

TicksPerHour == SecondsPerHour * TicksPerSecond

PauseTicks == (StaleHours + 1) * TicksPerHour

----------------------------------------------------------------------------
(* utils.py                                                                 *)

Digit(d) == CASE d = 0 -> "0" [] d = 1 -> "1" [] d = 2 -> "2" [] d = 3 -> "3"
              [] d = 4 -> "4" [] d = 5 -> "5" [] d = 6 -> "6" [] d = 7 -> "7"
              [] d = 8 -> "8" [] d = 9 -> "9"

\* %H, %M, %S: two decimal digits
Pad2(n) == <<Digit((n \div 10) % 10), Digit(n % 10)>>

\* the date of the behaviour; the clock starts at midnight and
\* stays within the day
DatePart == <<"2", "0", "2", "5", "-", "0", "1", "-", "0", "1">>

\* strftime("%Y-%m-%dT%H-%M-%SZ"): the sub-second part of the timestamp is dropped
create_db_name(timestamp) ==
    LET secs == timestamp \div TicksPerSecond
    IN  DatePart \o <<"T">> \o Pad2(secs \div SecondsPerHour) \o <<"-">>
          \o Pad2((secs % SecondsPerHour) \div 60) \o <<"-">>
          \o Pad2(secs % 60) \o <<"Z">>

\* dt.isoformat() + "Z": the ISO text, which keeps the full resolution of the
\* clock, and the suffix
format_timestamp(dt) == [isoformat |-> dt, suffix |-> "Z"]

safe_db_name(db_name) ==
    /\ ~ \E i \in 1..(Len(db_name) - 1) : db_name[i] = "." /\ db_name[i + 1] = "."
    /\ ~ \E i \in 1..Len(db_name) : db_name[i] = "/"
    /\ ~ \E i \in 1..Len(db_name) : db_name[i] = "\\"

----------------------------------------------------------------------------
(* db.py: the store file of one run.                                        *)
(*   schema  "none": the file exists and holds no table                      *)
(*           "partial": the fetch table exists, the schema is incomplete or  *)
(*                      the Fetch Run row is missing                         *)
(*           "full": create_fetch_db committed                               *)
(*   fetch   the Fetch Run row (None while it is missing)                    *)
(*   objects name -> Catalog Entry                                           *)
(*   manifest the Manifest row (None while it is missing)                    *)
(*   manifest_entries id -> Manifest Entry                                   *)
(*   entry_seq the last id AUTOINCREMENT gave to a Manifest Entry            *)

DbExists(fs, db_name) == db_name \in DOMAIN fs

db_exists(fs, db_name) == safe_db_name(db_name) /\ DbExists(fs, db_name)

NewFetchRow(bucket_name, prefix, started_at) ==
    [bucket_name |-> bucket_name, prefix |-> prefix,
     started_at |-> format_timestamp(started_at), ended_at |-> None,
     record_count |-> 0, db_size_mb |-> 0, status |-> "running", error |-> None]

EmptyObjects == [n \in {} |-> None]

EmptyEntries == [id \in {} |-> None]

StoreAt(schema, fetch) ==
    [schema |-> schema, fetch |-> fetch, objects |-> EmptyObjects,
     manifest |-> None, manifest_entries |-> EmptyEntries, entry_seq |-> 0]

\* The stores that hold a Fetch Run row: what list_fetches returns
list_fetches(fs) == {n \in DOMAIN fs : IsSome(fs[n].fetch)}

\* mutant: CREATE TABLE IF NOT EXISTS and INSERT OR REPLACE, so creation
\* succeeds on a store that exists
create_fetch_db_if_not_exists(fs, db_name, bucket_name, prefix, started_at) ==
    IF ~safe_db_name(db_name)
    THEN {[ok |-> FALSE, files |-> fs]}
    ELSE {[ok |-> TRUE,
           files |-> (db_name :> StoreAt("full", Some(NewFetchRow(bucket_name, prefix, started_at)))) @@ fs],
          [ok |-> FALSE, files |-> fs]}

\* create_fetch_db: the set of outcomes [ok, files].  Every CREATE statement
\* commits on its own (sqlite3 opens no transaction for DDL), so a failure
\* leaves what was created before it.  CREATE TABLE fetch fails on a file
\* that already holds the table.
create_fetch_db(fs, db_name, bucket_name, prefix, started_at) ==
    IF ~safe_db_name(db_name)
    THEN {[ok |-> FALSE, files |-> fs]}
    ELSE IF DbExists(fs, db_name) /\ fs[db_name].schema # "none"
    THEN {[ok |-> FALSE, files |-> fs]}
    ELSE {[ok |-> TRUE,
           files |-> (db_name :> StoreAt("full", Some(NewFetchRow(bucket_name, prefix, started_at)))) @@ fs],
          [ok |-> FALSE, files |-> fs],
          [ok |-> FALSE, files |-> (db_name :> StoreAt("none", None)) @@ fs],
          [ok |-> FALSE, files |-> (db_name :> StoreAt("partial", None)) @@ fs]}

\* the directory without the file of db_name
Removed(fs, db_name) == [n \in DOMAIN fs \ {db_name} |-> fs[n]]

\* mutant: the failure of os.remove is not noticed
delete_fetch_unchecked(fs, db_name) ==
    IF ~safe_db_name(db_name) THEN {[ok |-> FALSE, files |-> fs]}
    ELSE IF ~DbExists(fs, db_name) THEN {[ok |-> FALSE, files |-> fs]}
    ELSE {[ok |-> TRUE, files |-> Removed(fs, db_name)], [ok |-> TRUE, files |-> fs]}

\* delete_fetch: the set of outcomes [ok, files]; os.remove removes the file
\* or raises and leaves it
delete_fetch(fs, db_name) ==
    IF ~safe_db_name(db_name) THEN {[ok |-> FALSE, files |-> fs]}
    ELSE IF ~DbExists(fs, db_name) THEN {[ok |-> FALSE, files |-> fs]}
    ELSE {[ok |-> TRUE, files |-> Removed(fs, db_name)], [ok |-> FALSE, files |-> fs]}

\* get_fetch_info: the Fetch Run row, None when the file or the row is missing
get_fetch_info(fs, db_name) ==
    IF ~safe_db_name(db_name) \/ ~DbExists(fs, db_name) THEN None
    ELSE fs[db_name].fetch

\* update_fetch_status can run: the file holds the fetch table with its row
\* (on a missing file sqlite3 creates an empty one and UPDATE raises "no such
\* table"; on a table without the row UPDATE changes nothing)
CanUpdateFetch(fs, db_name) ==
    safe_db_name(db_name) /\ DbExists(fs, db_name) /\ fs[db_name].schema # "none"

\* mutant: every column is written, a missing argument as NULL
update_fetch_status_all_columns(fs, db_name, status, ended_at, record_count, error, db_size_mb) ==
    IF ~IsSome(fs[db_name].fetch) THEN fs
    ELSE [fs EXCEPT ![db_name].fetch =
            Some([Get(fs[db_name].fetch) EXCEPT
                    !.status = status,
                    !.ended_at = IF IsSome(ended_at) THEN Some(format_timestamp(Get(ended_at)))
                                 ELSE None,
                    !.record_count = IF IsSome(record_count) THEN Get(record_count) ELSE 0,
                    !.error = error,
                    !.db_size_mb = IF IsSome(db_size_mb) THEN Get(db_size_mb) ELSE 0])]

\* update_fetch_status: status is always written, each optional argument only
\* when it is supplied
update_fetch_status(fs, db_name, status, ended_at, record_count, error, db_size_mb) ==
    IF ~IsSome(fs[db_name].fetch) THEN fs
    ELSE LET row == Get(fs[db_name].fetch)
             new == [row EXCEPT
                       !.status = status,
                       !.ended_at = IF IsSome(ended_at) THEN Some(format_timestamp(Get(ended_at))) ELSE @,
                       !.record_count = IF IsSome(record_count) THEN Get(record_count) ELSE @,
                       !.error = IF IsSome(error) THEN error ELSE @,
                       !.db_size_mb = IF IsSome(db_size_mb) THEN Get(db_size_mb) ELSE @]
         IN  [fs EXCEPT ![db_name].fetch = Some(new)]

\* insert_objects_batch can run: the objects table exists
CanInsert(fs, db_name) ==
    safe_db_name(db_name) /\ DbExists(fs, db_name) /\ fs[db_name].schema = "full"

BatchNames(batch) == {batch[i].name : i \in 1..Len(batch)}

\* the row INSERT OR REPLACE writes for one element of a batch: the five
\* columns of the statement, manifest_entry_id at its default NULL
ObjectRow(obj) ==
    [size |-> obj.size, updated |-> obj.updated, time_created |-> obj.time_created,
     custom_time |-> obj.custom_time, manifest_entry_id |-> None]

\* mutant: of two elements of a batch with one name the earlier one stays
RECURSIVE BatchRows_FirstWins(_, _, _)
BatchRows_FirstWins(batch, lo, hi) ==
    IF lo = hi
    THEN batch[lo].name :> ObjectRow(batch[lo])
    ELSE LET mid == (lo + hi) \div 2
         IN  BatchRows_FirstWins(batch, lo, mid) @@ BatchRows_FirstWins(batch, mid + 1, hi)

\* the rows that elements lo..hi of a batch leave when they are written one
\* after the other: a later element replaces an earlier one of the same name
\* (computed by halves, the later half over the earlier one)
RECURSIVE BatchRows(_, _, _)
BatchRows(batch, lo, hi) ==
    IF lo = hi
    THEN batch[lo].name :> ObjectRow(batch[lo])
    ELSE LET mid == (lo + hi) \div 2
         IN  BatchRows(batch, mid + 1, hi) @@ BatchRows(batch, lo, mid)

\* mutant: INSERT OR IGNORE, a row that exists is kept
UpsertObjects_Ignore(objects, batch) ==
    IF batch = <<>> THEN objects
    ELSE objects @@ BatchRows(batch, 1, Len(batch))

\* mutant: ON CONFLICT(name) DO UPDATE of the five columns, a row that
\* exists keeps its manifest_entry_id
UpsertObjects_KeepLink(objects, batch) ==
    IF batch = <<>> THEN objects
    ELSE LET rows == BatchRows(batch, 1, Len(batch))
         IN  [n \in DOMAIN rows |->
                IF n \in DOMAIN objects
                THEN [rows[n] EXCEPT !.manifest_entry_id = objects[n].manifest_entry_id]
                ELSE rows[n]] @@ objects

\* executemany(INSERT OR REPLACE ...): the rows of the batch replace the rows
\* of their names and are added for the other names
UpsertObjects(objects, batch) ==
    IF batch = <<>> THEN objects
    ELSE BatchRows(batch, 1, Len(batch)) @@ objects

insert_objects_batch(fs, db_name, batch) ==
    [fs EXCEPT ![db_name].objects = UpsertObjects(@, batch)]

\* ORDER BY name ASC: the names of `names` that lie in lo..hi, ascending
\* (sorted by halves of the range)
RECURSIVE NamesAscending(_, _, _)
NamesAscending(names, lo, hi) ==
    IF names = {} THEN <<>>
    ELSE IF lo = hi THEN <<lo>>
    ELSE LET mid == (lo + hi) \div 2
         IN  NamesAscending({n \in names : n <= mid}, lo, mid)
               \o NamesAscending({n \in names : n > mid}, mid + 1, hi)

\* LIMIT page_size OFFSET (page - 1) * page_size of a sorted result
PageOf(rows, page, page_size) ==
    LET offset == (page - 1) * page_size
        last == IF offset + page_size < Len(rows) THEN offset + page_size ELSE Len(rows)
    IN  SubSeq(rows, offset + 1, last)

\* the names of page `page` of get_objects_page without filters, sort name_asc
NameAscPage(names, page, page_size) ==
    PageOf(NamesAscending(names, 1, NameBound), page, page_size)

\* calculate_db_size_mb: the size of the file, 0 when it is missing; the file
\* grows with its rows (one unit for the schema, one for each Catalog Entry)
calculate_db_size_mb(fs, db_name) ==
    IF ~safe_db_name(db_name) \/ ~DbExists(fs, db_name) THEN 0
    ELSE 1 + Cardinality(DOMAIN fs[db_name].objects)

----------------------------------------------------------------------------
(* db.py: the Manifest and the linker.  A regex pattern is the set of object *)
(* names in which re.search finds it (lang); the empty pattern has kind      *)
(* "empty".                                                                  *)

RegexPattern(lang) == [kind |-> "regex", lang |-> lang]

\* _regexp_function: 0 for an empty pattern, else whether re.search matches
_regexp_function(pattern, text) == pattern.kind = "regex" /\ text \in pattern.lang

\* get_current_manifest: the Manifest row, None when there is none
get_current_manifest(fs, db_name) ==
    IF ~safe_db_name(db_name) \/ ~DbExists(fs, db_name) THEN None
    ELSE fs[db_name].manifest

MinOf(ids) == CHOOSE id \in ids : \A other \in ids : id <= other

\* SELECT ... FROM manifest_entries ORDER BY id
RECURSIVE EntriesById(_)
EntriesById(entries) ==
    IF DOMAIN entries = {} THEN <<>>
    ELSE LET id == MinOf(DOMAIN entries)
         IN  <<[id |-> id] @@ entries[id]>>
               \o EntriesById([other \in DOMAIN entries \ {id} |-> entries[other]])

get_manifest_entries(fs, db_name) == EntriesById(fs[db_name].manifest_entries)

\* UPDATE objects SET manifest_entry_id = NULL
UnlinkAll(objects) == [n \in DOMAIN objects |-> [objects[n] EXCEPT !.manifest_entry_id = None]]

\* mutant: the links are left as they are
clear_manifest_links_kept(fs, db_name) == fs

clear_manifest_links(fs, db_name) == [fs EXCEPT ![db_name].objects = UnlinkAll(@)]

\* the row INSERT INTO manifest_entries writes for one element of patterns
EntryRow(pattern_data) ==
    [mapping_key |-> pattern_data.mapping_key, pretty_name |-> pattern_data.pretty_name,
     destination |-> pattern_data.destination, regex_pattern |-> pattern_data.regex_pattern]

\* store_manifest, hash changed: the store after the first k statements of
\* the transaction (UPDATE objects, DELETE FROM manifest_entries, INSERT OR
\* REPLACE INTO manifest, then one INSERT for each element of patterns)
StoreManifestStatements(store, url, manifest_hash, patterns, date_added, k) ==
    LET inserted == IF k > 3 THEN k - 3 ELSE 0
    IN  [store EXCEPT
           !.objects = IF k >= 1 THEN UnlinkAll(@) ELSE @,
           !.manifest_entries =
               IF k >= 2
               THEN [id \in (store.entry_seq + 1)..(store.entry_seq + inserted) |->
                        EntryRow(patterns[id - store.entry_seq])]
               ELSE @,
           !.entry_seq = @ + inserted,
           !.manifest =
               IF k >= 3
               THEN Some([url |-> url, hash |-> manifest_hash,
                          date_added |-> format_timestamp(date_added),
                          pattern_count |-> Len(patterns), status |-> "idle"])
               ELSE @]

\* mutant: every statement of store_manifest commits on its own
store_manifest_autocommit(store, url, manifest_hash, patterns, date_added) ==
    IF IsSome(store.manifest) /\ Get(store.manifest).hash = manifest_hash
    THEN {[ok |-> TRUE, store |-> store]}
    ELSE {[ok |-> k = Len(patterns) + 3,
           store |-> StoreManifestStatements(store, url, manifest_hash, patterns, date_added, k)] :
             k \in 0..(Len(patterns) + 3)}

\* store_manifest: the set of outcomes [ok, store].  Nothing is written when
\* the stored hash is manifest_hash.  Otherwise the statements run in one
\* transaction: it is committed after the last one, and a statement that
\* raises leaves the connection to be closed without a commit.
store_manifest(store, url, manifest_hash, patterns, date_added) ==
    IF IsSome(store.manifest) /\ Get(store.manifest).hash = manifest_hash
    THEN {[ok |-> TRUE, store |-> store]}
    ELSE {[ok |-> TRUE,
           store |-> StoreManifestStatements(store, url, manifest_hash, patterns,
                                             date_added, Len(patterns) + 3)],
          [ok |-> FALSE, store |-> store]}

\* the loop of link_objects_to_manifest_entries over the entries `todo` in
\* ascending id: UPDATE objects SET manifest_entry_id = id WHERE name REGEXP
\* pattern AND manifest_entry_id IS NULL; an UPDATE that raises (id in
\* skipped) is logged and the loop continues
RECURSIVE LinkPass(_, _, _, _)
LinkPass(objects, entries, todo, skipped) ==
    IF todo = {} THEN objects
    ELSE LET id == MinOf(todo)
             updated ==
               IF id \in skipped THEN objects
               ELSE [n \in DOMAIN objects |->
                       IF _regexp_function(entries[id].regex_pattern, n)
                            /\ objects[n].manifest_entry_id = None
                       THEN [objects[n] EXCEPT !.manifest_entry_id = Some(id)]
                       ELSE objects[n]]
         IN  LinkPass(updated, entries, todo \ {id}, skipped)

SetStatus(manifest, status) ==
    IF IsSome(manifest) THEN Some([Get(manifest) EXCEPT !.status = status]) ELSE manifest

LinkedObjects(objects) == {n \in DOMAIN objects : IsSome(objects[n].manifest_entry_id)}

\* link_objects_to_manifest_entries: [store, stats].  The status is set to
\* processing and committed; without entries the call returns at once;
\* else the loop runs, is committed, and the status is set back to idle.
link_objects_to_manifest_entries(store, skipped) ==
    IF DOMAIN store.manifest_entries = {}
    THEN [store |-> [store EXCEPT !.manifest = SetStatus(@, "processing")],
          stats |-> [total_objects |-> 0, linked_objects |-> 0]]
    ELSE LET objects == LinkPass(store.objects, store.manifest_entries,
                                 DOMAIN store.manifest_entries, skipped)
         IN  [store |-> [store EXCEPT !.objects = objects, !.manifest = SetStatus(@, "idle")],
              stats |-> [total_objects |-> Cardinality(DOMAIN objects),
                         linked_objects |-> Cardinality(LinkedObjects(objects))]]

----------------------------------------------------------------------------
(* db.py: the queries.  The filters of a query are a record of the keyword   *)
(* arguments regex_filter, regex_filters, created_before, has_custom_time,   *)
(* use_manifest_filtering and exclude_manifest_matches.  A date text is the  *)
(* instant it denotes, all texts in the one format isoformat() writes, so    *)
(* that the comparison of two texts is the comparison of their instants.     *)

EmptyPattern == [kind |-> "empty", lang |-> {}]

\* str.lower() on the texts of has_custom_time that occur
Lower(text) ==
    CASE text = "YES" -> "yes"
      [] text = "True" -> "true"
      [] OTHER -> text

\* the patterns of regex_filter and regex_filters that are not empty
AllRegexPatterns(filters) ==
    (IF IsSome(filters.regex_filter) /\ Get(filters.regex_filter).kind # "empty"
     THEN <<Get(filters.regex_filter)>> ELSE <<>>)
      \o SelectSeq(filters.regex_filters, LAMBDA f : f.kind # "empty")

\* the JOIN and the WHERE clause that get_objects_page and
\* get_object_names_filtered build: whether the Catalog Entry n is selected
WhereClause(store, filters, n) ==
    LET row == store.objects[n]
        patterns == AllRegexPatterns(filters)
    IN  /\ IF filters.use_manifest_filtering
           THEN /\ IsSome(row.manifest_entry_id)
                /\ Get(row.manifest_entry_id) \in DOMAIN store.manifest_entries
           ELSE IF filters.exclude_manifest_matches
           THEN row.manifest_entry_id = None
           ELSE \/ patterns = <<>>
                \/ \E i \in 1..Len(patterns) : _regexp_function(patterns[i], n)
        /\ IsSome(filters.created_before) =>
              IsSome(row.time_created) /\ Get(row.time_created) < Get(filters.created_before)
        /\ (IsSome(filters.has_custom_time) /\ Get(filters.has_custom_time) # "") =>
              IF Lower(Get(filters.has_custom_time)) \in {"true", "yes"}
              THEN IsSome(row.custom_time)
              ELSE row.custom_time = None

Selected(store, filters) == {n \in DOMAIN store.objects : WhereClause(store, filters, n)}

Reverse(seq) == [i \in 1..Len(seq) |-> seq[Len(seq) + 1 - i]]

\* the sort key of ORDER BY time_created: NULL sorts before every text
TimeKey(row) == IF IsSome(row.time_created) THEN Get(row.time_created) ELSE -1

\* ORDER BY: the orders in which the rows of `names` may be returned.  The
\* name is the primary key, so the name sorts have one order; rows of one
\* time_created may come in any order.
OrderBy(objects, names, sort) ==
    IF sort = "name_desc" THEN {Reverse(NamesAscending(names, 1, NameBound))}
    ELSE IF sort \in {"time_created_desc", "time_created_asc"}
    THEN {rows \in [1..Cardinality(names) -> names] :
            /\ \A i, j \in 1..Cardinality(names) : rows[i] = rows[j] => i = j
            /\ \A i \in 1..(Cardinality(names) - 1) :
                  IF sort = "time_created_asc"
                  THEN TimeKey(objects[rows[i]]) <= TimeKey(objects[rows[i + 1]])
                  ELSE TimeKey(objects[rows[i]]) >= TimeKey(objects[rows[i + 1]])}
    ELSE {NamesAscending(names, 1, NameBound)}

\* LIMIT limit OFFSET offset: a negative limit is no limit, a negative
\* offset is no offset
LimitOffset(rows, limit, offset) ==
    LET skip == IF offset < 0 THEN 0 ELSE offset
        last == IF limit < 0 \/ skip + limit > Len(rows) THEN Len(rows) ELSE skip + limit
    IN  SubSeq(rows, skip + 1, last)

ItemOf(objects, n) == [name |-> n] @@ objects[n]

\* get_objects_page: the results the query may return
get_objects_page(store, page, page_size, filters, sort) ==
    LET offset == (page - 1) * page_size
        names == Selected(store, filters)
        total == Cardinality(names)
        Items(rows) == [i \in 1..Len(rows) |-> ItemOf(store.objects, rows[i])]
    IN  {[items |-> Items(LimitOffset(rows, page_size, offset)),
          total |-> total,
          page |-> page,
          page_size |-> page_size] : rows \in OrderBy(store.objects, names, sort)}

\* mutant: the names are selected without the condition on custom_time
get_object_names_no_custom_time(store, filters) ==
    NamesAscending(Selected(store, [filters EXCEPT !.has_custom_time = None]), 1, NameBound)

\* get_object_names_filtered: the selected names, ORDER BY name ASC
get_object_names_filtered(store, filters) ==
    NamesAscending(Selected(store, filters), 1, NameBound)

----------------------------------------------------------------------------
(* The external object lister.  A listing is finite and lazy; blob i of a   *)
(* listing is determined by its position.                                    *)

\* the listings of `lens` lengths, all of their names distinct
Listings(lens) == {[len |-> n, names |-> IF n = 0 THEN 1 ELSE n] : n \in lens}

\* listings in which names repeat: two names in turn, so that every batch
\* holds each of them many times, and a cycle of batch_size names, so that
\* the last batch brings names of the first one again
RepeatingListings ==
    {[len |-> batch_size + 2, names |-> 2], [len |-> batch_size + 2, names |-> batch_size]}

\* blob i of a listing, as the client library exposes it; the blobs arrive
\* in descending order of their names, which repeat after listing.names blobs
Blob(listing, i) ==
    [name |-> listing.names - ((i - 1) % listing.names),
     size |-> IF i % 3 = 0 THEN None ELSE Some(i),
     updated |-> Some(i),
     time_created |-> Some((i + 1) \div 2),
     custom_time |-> IF i % 2 = 1 THEN Some(i) ELSE None]

----------------------------------------------------------------------------
(* fetcher.py: FetchManager.                                                 *)

\* obj_data of _run_fetch: `blob.size or 0`, the timestamps as ISO text or None
ObjData(blob) ==
    [name |-> blob.name,
     size |-> IF IsSome(blob.size) /\ Get(blob.size) # 0 THEN Get(blob.size) ELSE 0,
     updated |-> blob.updated,
     time_created |-> blob.time_created,
     custom_time |-> blob.custom_time]

NoLock == [exists |-> FALSE, mtime |-> 0]

\* mutant: a batch is inserted only when it is longer than batch_size
BatchIsLonger(batch) == Len(batch) > batch_size

\* `if len(batch) >= batch_size`
BatchIsFull(batch) == Len(batch) >= batch_size

\* mutant: the presence test of the lock file is inverted
_is_fetch_running_inverted(p) == IsSome(current_fetch[p]) /\ ~lock_file.exists

_is_fetch_running_locked(p) == IsSome(current_fetch[p]) /\ lock_file.exists

NewThread(p, db_name, bucket_name, prefix, listing) ==
    [proc |-> p, db_name |-> db_name, bucket_name |-> bucket_name, prefix |-> prefix,
     listing |-> listing, pos |-> 0, pc |-> "loop", processed_count |-> 0,
     batch |-> <<>>, error |-> None, escaped |-> FALSE, cleaned |-> FALSE,
     batches |-> <<>>]

\* the threads that are executing _run_fetch
Running(p) == {t \in DOMAIN threads : threads[t].proc = p /\ threads[t].pc # "done"}

Last(op, p, t, flag) == [op |-> op, proc |-> p, tid |-> t, flag |-> flag]

Init ==
    /\ now = 0
    /\ up = [p \in Procs |-> p = 1]
    /\ lock_file = NoLock
    /\ files = [n \in {} |-> None]
    /\ thread_lock = [p \in Procs |-> FALSE]
    /\ current_fetch = [p \in Procs |-> None]
    /\ starter = [p \in Procs |-> "idle"]
    /\ pending = [p \in Procs |-> None]
    /\ threads = [t \in {} |-> None]
    /\ response = [p \in Procs |-> [op |-> "none"]]
    /\ history = [last |-> Last("init", 1, 0, ""), batch |-> <<>>, before |-> EmptyObjects,
                  doc |-> None, fetch_ok |-> TRUE, skipped |-> {},
                  queries |-> 0]

\* one tick of the clock
Tick ==
    /\ now % TicksPerHour < MaxTicks
    /\ now' = now + 1
    /\ history' = [history EXCEPT !.last = Last("tick", 0, 0, "")]
    /\ UNCHANGED <<up, lock_file, files, thread_lock, current_fetch, starter, pending, threads, response>>

\* nothing happens for an hour more than StaleHours hours
LongPause ==
    /\ now \div PauseTicks < MaxPauses
    /\ now' = now + PauseTicks
    /\ history' = [history EXCEPT !.last = Last("pause", 0, 0, "")]
    /\ UNCHANGED <<up, lock_file, files, thread_lock, current_fetch, starter, pending, threads, response>>

\* mutant: a lock file as old as StaleHours is removed as well
StaleLockOutcomes_AtThreshold ==
    IF lock_file.exists /\ (now - lock_file.mtime) >= StaleHours * TicksPerHour
    THEN {NoLock, lock_file}
    ELSE {lock_file}

\* _clear_stale_lock: the lock file is removed when it is older than
\* StaleHours; a failure of stat or remove is logged and ignored
StaleLockOutcomes ==
    IF lock_file.exists /\ (now - lock_file.mtime) > StaleHours * TicksPerHour
    THEN {NoLock, lock_file}
    ELSE {lock_file}

\* FetchManager.__init__ of a further process on the same store directory
Construct(p) ==
    /\ ~up[p]
    /\ up' = [up EXCEPT ![p] = TRUE]
    /\ \E l \in StaleLockOutcomes :
         /\ lock_file' = l
         /\ history' = [history EXCEPT !.last =
                          Last("construct", p, 0, IF l = lock_file THEN "kept" ELSE "cleared")]
    /\ UNCHANGED <<now, files, thread_lock, current_fetch, starter, pending, threads, response>>

\* get_fetch_status
GetFetchStatus(p) ==
    /\ up[p]
    /\ ~thread_lock[p]
    /\ response' = [response EXCEPT ![p] =
         IF IsSome(current_fetch[p]) /\ lock_file.exists
         THEN LET db_name == Get(current_fetch[p]).db_name
                  fetch_info == get_fetch_info(files, db_name)
              IN  [op |-> "get_fetch_status", running |-> TRUE,
                   started_at |-> Get(current_fetch[p]).started_at,
                   db_name |-> db_name,
                   processed |-> IF IsSome(fetch_info) THEN Get(fetch_info).record_count ELSE 0]
         ELSE [op |-> "get_fetch_status", running |-> FALSE]]
    /\ history' = [history EXCEPT !.last = Last("get_fetch_status", p, 0, "")]
    /\ UNCHANGED <<now, up, lock_file, files, thread_lock, current_fetch, starter, pending, threads>>

\* what open(lock_file, "w") and the write leave when they raise: the file
\* as it was, or a file just created
LockFailureOutcomes == {lock_file, [exists |-> TRUE, mtime |-> now]}

\* mutant: the run state is set before the lock file is written
StartLockFailed_StateSet(p) ==
    /\ \E l \in LockFailureOutcomes : lock_file' = l
    /\ current_fetch' = [current_fetch EXCEPT ![p] =
          Some([db_name |-> create_db_name(now), bucket_name |-> "bucket",
                prefix |-> None, started_at |-> format_timestamp(now)])]
    /\ response' = [response EXCEPT ![p] = [op |-> "start_fetch", outcome |-> "lock_failed"]]
    /\ history' = [history EXCEPT !.last = Last("start_fetch", p, 0, "lock_failed")]
    /\ UNCHANGED <<files, thread_lock, starter, pending, threads>>

\* start_fetch when the lock file cannot be written: RuntimeError("Failed to
\* create lock file"), raised before any run state is set
StartLockFailed(p) ==
    /\ \E l \in LockFailureOutcomes : lock_file' = l
    /\ response' = [response EXCEPT ![p] = [op |-> "start_fetch", outcome |-> "lock_failed"]]
    /\ history' = [history EXCEPT !.last = Last("start_fetch", p, 0, "lock_failed")]
    /\ UNCHANGED <<files, thread_lock, current_fetch, starter, pending, threads>>

\* start_fetch, up to its return or to the point where it blocks.  The whole
\* body runs with _thread_lock held.  When create_fetch_db raises, the body
\* calls _cleanup_fetch, which acquires _thread_lock again: the caller stays
\* at "cleanup" with the lock held.
StartFetch(p, listings) ==
    /\ up[p]
    /\ ~thread_lock[p]
    /\ IF _is_fetch_running_locked(p)
       THEN /\ response' = [response EXCEPT ![p] = [op |-> "start_fetch", outcome |-> "already_running"]]
            /\ history' = [history EXCEPT !.last = Last("start_fetch", p, 0, "already_running")]
            /\ UNCHANGED <<lock_file, files, thread_lock, current_fetch, starter, pending, threads>>
       ELSE \E lock_ok \in BOOLEAN :
            IF ~lock_ok
            THEN StartLockFailed(p)
            ELSE /\ Cardinality(DOMAIN threads) < MaxRuns
                 /\ lock_file' = [exists |-> TRUE, mtime |-> now]
                 /\ \E bucket_name \in Buckets, prefix \in Prefixes, listing \in listings :
                    LET started_at == now
                        db_name == create_db_name(started_at)
                        tid == Cardinality(DOMAIN threads) + 1
                    IN  /\ current_fetch' = [current_fetch EXCEPT ![p] =
                              Some([db_name |-> db_name, bucket_name |-> bucket_name,
                                    prefix |-> prefix, started_at |-> format_timestamp(started_at)])]
                        /\ \E created \in create_fetch_db(files, db_name, bucket_name, prefix, started_at) :
                              /\ files' = created.files
                              /\ IF created.ok
                                 THEN /\ threads' = (tid :> NewThread(p, db_name, bucket_name, prefix, listing)) @@ threads
                                      /\ response' = [response EXCEPT ![p] =
                                            [op |-> "start_fetch", outcome |-> "ok", db_name |-> db_name,
                                             started_at |-> format_timestamp(started_at)]]
                                      /\ history' = [history EXCEPT !.last = Last("start_fetch", p, tid, "ok")]
                                      /\ UNCHANGED <<thread_lock, starter, pending>>
                                 ELSE /\ thread_lock' = [thread_lock EXCEPT ![p] = TRUE]
                                      /\ starter' = [starter EXCEPT ![p] = "cleanup"]
                                      /\ UNCHANGED pending
                                      /\ response' = [response EXCEPT ![p] = [op |-> "start_fetch", outcome |-> "pending"]]
                                      /\ history' = [history EXCEPT !.last = Last("start_fetch", p, 0, "create_failed")]
                                      /\ UNCHANGED threads
    /\ UNCHANGED <<now, up>>

\* what os.remove(lock_file) of _cleanup_fetch leaves: a failure is logged
\* and ignored
RemoveLockOutcomes == IF lock_file.exists THEN {NoLock, lock_file} ELSE {lock_file}

\* _cleanup_fetch, called by ingestion thread `caller` in its finally clause
\* or (caller 0) by the body of start_fetch after create_fetch_db raised.  It
\* acquires _thread_lock, which is not reentrant.
CleanupFetch(p, caller) ==
    /\ ~thread_lock[p]
    /\ IF caller = 0
       THEN starter[p] = "cleanup"
       ELSE caller \in DOMAIN threads /\ threads[caller].proc = p /\ threads[caller].pc = "cleanup"
    /\ current_fetch' = [current_fetch EXCEPT ![p] = None]
    /\ \E l \in RemoveLockOutcomes :
         /\ lock_file' = l
         /\ history' = [history EXCEPT !.last =
                Last("cleanup", p, caller,
                     IF ~lock_file.exists THEN "no_lock"
                     ELSE IF l = NoLock THEN "removed" ELSE "remove_failed")]
    /\ IF caller = 0
       THEN /\ starter' = [starter EXCEPT ![p] = "idle"]
            /\ UNCHANGED pending
            /\ response' = [response EXCEPT ![p] = [op |-> "start_fetch", outcome |-> "create_failed"]]
            /\ UNCHANGED threads
       ELSE /\ threads' = [threads EXCEPT ![caller].pc = "done", ![caller].cleaned = TRUE]
            /\ UNCHANGED <<starter, pending, response>>
    /\ UNCHANGED <<now, up, files, thread_lock>>

----------------------------------------------------------------------------
(* fetcher.py: _run_fetch, one action for each step of the thread.  pc:      *)
(*   "loop"     at the head of `for blob in bucket.list_blobs(...)`          *)
(*   "insert"   a full batch is about to be inserted                         *)
(*   "progress" the record count is about to be written                      *)
(*   "flush"    the listing is exhausted                                     *)
(*   "success"  the final status is about to be written                      *)
(*   "except"   in the except clause, error holds str(e)                     *)
(*   "cleanup"  in the finally clause                                        *)
(*   "done"     _run_fetch has ended (escaped: by an exception)              *)

AtPc(t, pc) == t \in DOMAIN threads /\ threads[t].pc = pc

Step(t, op, flag) ==
    history' = [history EXCEPT !.last = Last(op, threads[t].proc, t, flag)]

Raise(t, message) ==
    threads' = [threads EXCEPT ![t].pc = "except", ![t].error = Some(message)]

\* the listing yields its next blob
NextBlob(t) ==
    /\ AtPc(t, "loop")
    /\ threads[t].pos < threads[t].listing.len
    /\ LET th == threads[t]
           batch == Append(th.batch, ObjData(Blob(th.listing, th.pos + 1)))
       IN  threads' = [threads EXCEPT
                         ![t].pos = th.pos + 1,
                         ![t].batch = batch,
                         ![t].processed_count = th.processed_count + 1,
                         ![t].pc = IF BatchIsFull(batch) THEN "insert" ELSE "loop"]
    /\ Step(t, "next_blob", "")
    /\ UNCHANGED <<now, up, lock_file, files, thread_lock, current_fetch, starter, pending, response>>

\* the listing is exhausted
ListingEnds(t) ==
    /\ AtPc(t, "loop")
    /\ threads[t].pos = threads[t].listing.len
    /\ threads' = [threads EXCEPT ![t].pc = "flush"]
    /\ Step(t, "listing_ends", "")
    /\ UNCHANGED <<now, up, lock_file, files, thread_lock, current_fetch, starter, pending, response>>

\* the lister raises (the bucket is missing, the network fails)
ListingFails(t) ==
    /\ AtPc(t, "loop")
    /\ Raise(t, "listing failed")
    /\ Step(t, "listing_fails", "")
    /\ UNCHANGED <<now, up, lock_file, files, thread_lock, current_fetch, starter, pending, response>>

\* insert_objects_batch of a full batch; it raises when the store cannot be
\* written (io_ok false: the disk is full, the database is locked, ...)
InsertFullBatch(t) ==
    /\ AtPc(t, "insert")
    /\ \E io_ok \in BOOLEAN :
         IF io_ok /\ CanInsert(files, threads[t].db_name)
         THEN /\ files' = insert_objects_batch(files, threads[t].db_name, threads[t].batch)
              /\ threads' = [threads EXCEPT ![t].batch = <<>>, ![t].pc = "progress",
                                            ![t].batches = Append(@, Len(threads[t].batch))]
              /\ Step(t, "insert_full_batch", "ok")
         ELSE /\ Raise(t, "insert failed")
              /\ Step(t, "insert_full_batch", "raised")
              /\ UNCHANGED files
    /\ UNCHANGED <<now, up, lock_file, thread_lock, current_fetch, starter, pending, response>>

\* update_fetch_status(db_name, "running", record_count=processed_count)
UpdateProgress(t) ==
    /\ AtPc(t, "progress")
    /\ \E io_ok \in BOOLEAN :
         IF io_ok /\ CanUpdateFetch(files, threads[t].db_name)
         THEN /\ files' = update_fetch_status(files, threads[t].db_name, "running", None,
                                              Some(threads[t].processed_count), None, None)
              /\ threads' = [threads EXCEPT ![t].pc = "loop"]
              /\ Step(t, "update_progress", "ok")
         ELSE /\ Raise(t, "update failed")
              /\ Step(t, "update_progress", "raised")
              /\ UNCHANGED files
    /\ UNCHANGED <<now, up, lock_file, thread_lock, current_fetch, starter, pending, response>>

\* `if batch: insert_objects_batch(db_name, batch)`
FlushBatch(t) ==
    /\ AtPc(t, "flush")
    /\ IF threads[t].batch = <<>>
       THEN /\ threads' = [threads EXCEPT ![t].pc = "success"]
            /\ Step(t, "flush_batch", "empty")
            /\ UNCHANGED files
       ELSE \E io_ok \in BOOLEAN :
            IF io_ok /\ CanInsert(files, threads[t].db_name)
            THEN /\ files' = insert_objects_batch(files, threads[t].db_name, threads[t].batch)
                 /\ threads' = [threads EXCEPT ![t].pc = "success",
                                               ![t].batches = Append(@, Len(threads[t].batch))]
                 /\ Step(t, "flush_batch", "ok")
            ELSE /\ Raise(t, "insert failed")
                 /\ Step(t, "flush_batch", "raised")
                 /\ UNCHANGED files
    /\ UNCHANGED <<now, up, lock_file, thread_lock, current_fetch, starter, pending, response>>

\* the final update_fetch_status(db_name, "success", ...)
MarkSuccess(t) ==
    /\ AtPc(t, "success")
    /\ \E io_ok \in BOOLEAN :
         IF io_ok /\ CanUpdateFetch(files, threads[t].db_name)
         THEN /\ files' = update_fetch_status(files, threads[t].db_name, "success", Some(now),
                              Some(threads[t].processed_count), None,
                              Some(calculate_db_size_mb(files, threads[t].db_name)))
              /\ threads' = [threads EXCEPT ![t].pc = "cleanup"]
              /\ Step(t, "mark_success", "ok")
         ELSE /\ Raise(t, "update failed")
              /\ Step(t, "mark_success", "raised")
              /\ UNCHANGED files
    /\ UNCHANGED <<now, up, lock_file, thread_lock, current_fetch, starter, pending, response>>

\* mutant: no finally clause, an exception raised in the except clause ends
\* the thread at once
MarkError_NoFinally(t) ==
    /\ AtPc(t, "except")
    /\ \E io_ok \in BOOLEAN :
         IF io_ok /\ CanUpdateFetch(files, threads[t].db_name)
         THEN /\ files' = update_fetch_status(files, threads[t].db_name, "error", Some(now),
                              Some(threads[t].processed_count), threads[t].error, None)
              /\ threads' = [threads EXCEPT ![t].pc = "cleanup"]
              /\ Step(t, "mark_error", "ok")
         ELSE /\ threads' = [threads EXCEPT ![t].pc = "done", ![t].escaped = TRUE]
              /\ Step(t, "mark_error", "raised")
              /\ UNCHANGED files
    /\ UNCHANGED <<now, up, lock_file, thread_lock, current_fetch, starter, pending, response>>

\* the except clause: update_fetch_status(db_name, "error", ...).  When this
\* call raises too, the exception leaves _run_fetch after the finally clause.
MarkError(t) ==
    /\ AtPc(t, "except")
    /\ \E io_ok \in BOOLEAN :
         IF io_ok /\ CanUpdateFetch(files, threads[t].db_name)
         THEN /\ files' = update_fetch_status(files, threads[t].db_name, "error", Some(now),
                              Some(threads[t].processed_count), threads[t].error, None)
              /\ threads' = [threads EXCEPT ![t].pc = "cleanup"]
              /\ Step(t, "mark_error", "ok")
         ELSE /\ threads' = [threads EXCEPT ![t].pc = "cleanup", ![t].escaped = TRUE]
              /\ Step(t, "mark_error", "raised")
              /\ UNCHANGED files
    /\ UNCHANGED <<now, up, lock_file, thread_lock, current_fetch, starter, pending, response>>

----------------------------------------------------------------------------
(* Direct calls of the Catalog Store.                                        *)

\* an element of a batch: object `name` as the lister saw it at `version`
Entry(name, version) ==
    [name |-> name, size |-> version, updated |-> Some(version),
     time_created |-> Some((version + 1) \div 2),
     custom_time |-> IF version % 2 = 1 THEN Some(version) ELSE None]

\* an older and a newer version of an object
Versions == {1, 2}

Entries == {Entry(n, v) : n \in 1..MaxNames, v \in Versions}

\* the batches of at most MaxBatch elements
Batches == UNION {[1..k -> Entries] : k \in 0..MaxBatch}

\* the store directory after create_fetch_db has created the store of one run
InitStore ==
    /\ now = 0
    /\ up = [p \in Procs |-> p = 1]
    /\ lock_file = NoLock
    /\ \E created \in create_fetch_db([n \in {} |-> None], create_db_name(0), "bucket", None, 0) :
          created.ok /\ files = created.files
    /\ thread_lock = [p \in Procs |-> FALSE]
    /\ current_fetch = [p \in Procs |-> None]
    /\ starter = [p \in Procs |-> "idle"]
    /\ pending = [p \in Procs |-> None]
    /\ threads = [t \in {} |-> None]
    /\ response = [p \in Procs |-> [op |-> "none"]]
    /\ history = [last |-> Last("init", 1, 0, ""), batch |-> <<>>, before |-> EmptyObjects,
                  doc |-> None, fetch_ok |-> TRUE, skipped |-> {},
                  queries |-> 0]

\* insert_objects_batch(db_name, batch), called on an existing store; the
\* flag tells whether the call repeats the batch of the call before it
InsertObjectsBatch(db_name, batches) ==
    /\ CanInsert(files, db_name)
    /\ \E batch \in batches :
         /\ files' = insert_objects_batch(files, db_name, batch)
         /\ history' = [history EXCEPT
                           !.last = Last("insert_objects_batch", 1, 0,
                                         IF history.last.op = "insert_objects_batch"
                                              /\ history.batch = batch
                                         THEN "again" ELSE "first"),
                           !.batch = batch,
                           !.before = files[db_name].objects]
    /\ UNCHANGED <<now, up, lock_file, thread_lock, current_fetch, starter, pending, threads, response>>

\* the values of the status column that its CHECK constraint admits
FetchStatuses == {"running", "success", "error", "canceled"}

\* a call db_manager.update_fetch_status(db_name, **call) of one of `calls`.
\* get_db_path raises for an unsafe name; on a missing file sqlite3 creates an
\* empty one and the UPDATE raises; a status outside the CHECK constraint
\* raises and the row stays.
UpdateFetchStatus(db_name, calls) ==
    /\ \E call \in calls :
         LET raised == \/ ~CanUpdateFetch(files, db_name)
                       \/ call.status \notin FetchStatuses
         IN  /\ files' = IF ~safe_db_name(db_name) THEN files
                         ELSE IF ~DbExists(files, db_name)
                         THEN (db_name :> StoreAt("none", None)) @@ files
                         ELSE IF raised THEN files
                         ELSE update_fetch_status(files, db_name, call.status, call.ended_at,
                                                  call.record_count, call.error, call.db_size_mb)
             /\ response' = [response EXCEPT ![1] =
                    [op |-> "update_fetch_status", db_name |-> db_name, call |-> call,
                     raised |-> raised]]
    /\ UNCHANGED <<now, up, lock_file, thread_lock, current_fetch, starter, pending, threads, history>>

\* a call db_manager.delete_fetch(db_name)
DeleteFetch(db_name) ==
    /\ \E deleted \in delete_fetch(files, db_name) :
         /\ files' = deleted.files
         /\ response' = [response EXCEPT ![1] =
                [op |-> "delete_fetch", db_name |-> db_name, ok |-> deleted.ok]]
    /\ UNCHANGED <<now, up, lock_file, thread_lock, current_fetch, starter, pending, threads, history>>

----------------------------------------------------------------------------
(* api/manifest.py.  A destination of a manifest document is the set of the  *)
(* object names that the pattern compiled from it matches.                   *)

Names == 1..MaxNames

Destinations == {Names, {1}, {MaxNames}}

\* the records of the mapping of a document: with an expiry and a pretty
\* name for every destination, and one without expiry and one without
\* pretty name
ArtifactConfigs ==
    {[expiry |-> TRUE, pretty_name |-> "app", destination |-> d] : d \in Destinations}
      \cup {[expiry |-> FALSE, pretty_name |-> "app", destination |-> Names],
             [expiry |-> TRUE, pretty_name |-> "", destination |-> Names]}

\* what the manifest URL serves: a YAML mapping of at most two records, a
\* text that is no YAML, and a YAML text that is no mapping
Documents ==
    {[kind |-> "yaml", mapping |-> m] :
        m \in {<<>>} \cup {<<a>> : a \in ArtifactConfigs}
                \cup {<<a, b>> : a \in ArtifactConfigs, b \in {c \in ArtifactConfigs : c.expiry /\ c.pretty_name # ""}}}
      \cup {[kind |-> "bad_yaml", mapping |-> <<>>], [kind |-> "bad_shape", mapping |-> <<>>]}

ManifestUrl == "https://manifest"

\* hashlib.sha256(response.text): one hash for one text
manifest_hash(doc) == [sha256 |-> doc]

\* "^" + escaped path + "$" of a destination and a pretty name
CompilePattern(destination, pretty_name) == RegexPattern(destination)

Compiled(config) == config.expiry /\ config.pretty_name # ""

\* parse_manifest_patterns: the set of the patterns of the records that have
\* an expiry and a pretty name
parse_manifest_patterns(doc) ==
    {CompilePattern(doc.mapping[i].destination, doc.mapping[i].pretty_name) :
        i \in {j \in 1..Len(doc.mapping) : Compiled(doc.mapping[j])}}

PatternData(config) ==
    [mapping_key |-> config.pretty_name, pretty_name |-> config.pretty_name,
     destination |-> config.destination,
     regex_pattern |-> CompilePattern(config.destination, config.pretty_name)]

RECURSIVE PatternEntries(_)
\* pattern_entries of fetch_and_parse_manifest, in the order of the mapping
PatternEntries(mapping) ==
    IF mapping = <<>> THEN <<>>
    ELSE (IF Compiled(Head(mapping)) THEN <<PatternData(Head(mapping))>> ELSE <<>>)
           \o PatternEntries(Tail(mapping))

Failure(error) == [success |-> FALSE, error |-> error]

\* mutant: the entries of the mapping are stored before the fetch and the
\* document are checked
fetch_and_parse_manifest_store_first(fs, db_name, doc, fetch_ok, date_added) ==
    {[result |-> IF stored.ok /\ fetch_ok /\ doc.kind = "yaml"
                 THEN [success |-> TRUE, cached |-> FALSE,
                       patterns_count |-> Cardinality(parse_manifest_patterns(doc))]
                 ELSE Failure("Unexpected error"),
      files |-> [fs EXCEPT ![db_name] = stored.store]] :
       stored \in store_manifest(fs[db_name], ManifestUrl, manifest_hash(doc),
                                 PatternEntries(doc.mapping), date_added)}

\* fetch_and_parse_manifest: the set of outcomes [result, files]
fetch_and_parse_manifest(fs, db_name, doc, fetch_ok, date_added) ==
    IF ~fetch_ok
    THEN {[result |-> Failure("Failed to fetch manifest"), files |-> fs]}
    ELSE LET current_manifest == get_current_manifest(fs, db_name)
         IN  IF IsSome(current_manifest) /\ Get(current_manifest).hash = manifest_hash(doc)
             THEN {[result |-> [success |-> TRUE, cached |-> TRUE,
                                patterns_count |-> Len(get_manifest_entries(fs, db_name))],
                    files |-> fs]}
             ELSE IF doc.kind = "bad_yaml"
             THEN {[result |-> Failure("Invalid YAML format"), files |-> fs]}
             ELSE IF doc.kind = "bad_shape"
             THEN {[result |-> Failure("Unexpected error"), files |-> fs]}
             ELSE {[result |-> IF stored.ok
                               THEN [success |-> TRUE, cached |-> FALSE,
                                     patterns_count |-> Cardinality(parse_manifest_patterns(doc))]
                               ELSE Failure("Unexpected error"),
                    files |-> [fs EXCEPT ![db_name] = stored.store]] :
                     stored \in store_manifest(fs[db_name], ManifestUrl, manifest_hash(doc),
                                               PatternEntries(doc.mapping), date_added)}

----------------------------------------------------------------------------
(* api/manifest.py and re: the text of a compiled pattern and what it        *)
(* matches.  A text is the sequence of its characters.                       *)

MANIFEST_VARIABLES_REGEX ==
    <<
      [path_var |-> <<"b", "u", "i", "l", "d", "_", "n", "u", "m",
                         "b", "e", "r">>,
       template_var |-> <<"_", "_", "B", "U", "I", "L", "D", "_", "P",
                         "A", "T", "T", "E", "R", "N", "_", "_">>,
       regex_var |-> <<"\\", "d", "+">>],
      [path_var |-> <<"p", "a", "t", "h", "_", "p", "l", "a", "t",
                         "f", "o", "r", "m">>,
       template_var |-> <<"_", "_", "P", "L", "A", "T", "F", "O", "R",
                         "M", "_", "P", "A", "T", "T", "E", "R", "N",
                         "_", "_">>,
       regex_var |-> <<"[", "A", "-", "Z", "a", "-", "z", "0", "-",
                         "9", "-", "_", "]", "+">>],
      [path_var |-> <<"t", "o", "o", "l", "s", "_", "p", "l", "a",
                         "t", "f", "o", "r", "m">>,
       template_var |-> <<"_", "_", "P", "L", "A", "T", "F", "O", "R",
                         "M", "_", "P", "A", "T", "T", "E", "R", "N",
                         "_", "_">>,
       regex_var |-> <<"[", "A", "-", "Z", "a", "-", "z", "0", "-",
                         "9", "-", "_", "]", "+">>],
      [path_var |-> <<"l", "o", "c", "a", "l", "e">>,
       template_var |-> <<"_", "_", "L", "O", "C", "A", "L", "E", "_",
                         "P", "A", "T", "T", "E", "R", "N", "_", "_">>,
       regex_var |-> <<"[", "A", "-", "Z", "a", "-", "z", "-", "]",
                         "+">>],
      [path_var |-> <<"p", "r", "e", "v", "i", "o", "u", "s", "_",
                         "v", "e", "r", "s", "i", "o", "n">>,
       template_var |-> <<"_", "_", "V", "E", "R", "S", "I", "O", "N",
                         "_", "P", "A", "T", "T", "E", "R", "N", "_",
                         "_">>,
       regex_var |-> <<"\\", "d", "+", "\\", ".", "\\", "d", "+",
                         "b", "?", "\\", "d", "?">>],
      [path_var |-> <<"v", "e", "r", "s", "i", "o", "n">>,
       template_var |-> <<"_", "_", "V", "E", "R", "S", "I", "O", "N",
                         "_", "P", "A", "T", "T", "E", "R", "N", "_",
                         "_">>,
       regex_var |-> <<"\\", "d", "+", "\\", ".", "\\", "d", "+",
                         "b", "?", "\\", "d", "?">>],
      [path_var |-> <<"s", "o", "u", "r", "c", "e", "_", "p", "a",
                         "t", "h", "_", "m", "o", "d">>,
       template_var |-> <<"_", "_", "S", "P", "M", "_", "_">>,
       regex_var |-> <<"[", "A", "-", "Z", "a", "-", "z", "0", "-",
                         "9", "-", "_", "]", "*", "/", "?">>]
    >>

\* the characters in the order of their code points, as far as the ranges of
\* the classes need it
Ordered ==
    <<"0", "1", "2", "3", "4", "5", "6", "7", "8", "9">>
      \o <<"A", "B", "C", "D", "E", "F", "G", "H", "I", "J", "K", "L",
           "M", "N", "O", "P", "Q", "R", "S", "T", "U", "V", "W", "X",
           "Y", "Z">>
      \o <<"a", "b", "c", "d", "e", "f", "g", "h", "i", "j", "k", "l",
           "m", "n", "o", "p", "q", "r", "s", "t", "u", "v", "w", "x",
           "y", "z">>

\* word is in text at position i
StartsAt(text, i, word) ==
    /\ i + Len(word) - 1 <= Len(text)
    /\ SubSeq(text, i, i + Len(word) - 1) = word

\* `word in text`
Contains(text, word) == \E i \in 1..(Len(text) + 1) : StartsAt(text, i, word)

\* the first position from which word is in text, 0 when it is not
Find(text, word) ==
    IF Contains(text, word)
    THEN CHOOSE i \in 1..(Len(text) + 1) :
            /\ StartsAt(text, i, word)
            /\ \A j \in 1..(i - 1) : ~StartsAt(text, j, word)
    ELSE 0

RECURSIVE Replace(_, _, _)
\* text.replace(old, new): every occurrence from the left, not overlapping
Replace(text, old, new) ==
    LET i == Find(text, old)
    IN  IF i = 0 THEN text
        ELSE SubSeq(text, 1, i - 1) \o new
               \o Replace(SubSeq(text, i + Len(old), Len(text)), old, new)

\* the characters re.escape puts a backslash before
SpecialChars ==
    {"(", ")", "[", "]", "{", "}", "?", "*", "+", "-", "|", "^", "$", "\\", ".", "&", "~",
     "#", " "}

RECURSIVE re_escape(_)
\* re.escape(text): character by character, here by halves of the text
re_escape(text) ==
    IF text = <<>> THEN <<>>
    ELSE IF Len(text) = 1
    THEN (IF text[1] \in SpecialChars THEN <<"\\", text[1]>> ELSE text)
    ELSE re_escape(SubSeq(text, 1, Len(text) \div 2))
           \o re_escape(SubSeq(text, Len(text) \div 2 + 1, Len(text)))

RECURSIVE PlaceTemplates(_, _)
\* the first loop over MANIFEST_VARIABLES_REGEX, from its k-th row: ${path_var}
\* becomes template_var
PlaceTemplates(full_path, k) ==
    IF k > Len(MANIFEST_VARIABLES_REGEX) THEN full_path
    ELSE LET row == MANIFEST_VARIABLES_REGEX[k]
             variable == <<"$", "{">> \o row.path_var \o <<"}">>
         IN  PlaceTemplates(IF Contains(full_path, variable)
                            THEN Replace(full_path, variable, row.template_var)
                            ELSE full_path, k + 1)

RECURSIVE RestoreTemplates(_, _)
\* the second loop, from its k-th row: template_var becomes regex_var
RestoreTemplates(pattern, k) ==
    IF pattern = <<>> \/ k > Len(MANIFEST_VARIABLES_REGEX) THEN pattern
    ELSE RestoreTemplates(Replace(pattern, MANIFEST_VARIABLES_REGEX[k].template_var,
                                  MANIFEST_VARIABLES_REGEX[k].regex_var), k + 1)

\* final_pattern of parse_manifest_patterns for one destination
final_pattern(bucket_path, destination, pretty_name) ==
    LET full_path == bucket_path \o <<"/">> \o destination
                       \o <<"/", "_", "_", "S", "P", "M", "_", "_">> \o pretty_name
    IN  <<"^">> \o RestoreTemplates(re_escape(PlaceTemplates(full_path, 1)), 1) \o <<"$">>

\* the position of a character in Ordered, 0 for a character that is not there
OrderOf(char) ==
    IF \E i \in 1..Len(Ordered) : Ordered[i] = char
    THEN CHOOSE i \in 1..Len(Ordered) : Ordered[i] = char
    ELSE 0

RECURSIVE ClassChars(_)
\* the characters of the body of a class [...]: a-b is a range, any other
\* character stands for itself
ClassChars(body) ==
    IF body = <<>> THEN {}
    ELSE IF Len(body) >= 3 /\ body[2] = "-"
    THEN {Ordered[i] : i \in OrderOf(body[1])..OrderOf(body[3])}
           \cup ClassChars(SubSeq(body, 4, Len(body)))
    ELSE {Head(body)} \cup ClassChars(Tail(body))

\* the length of the atom of the pattern at position i
AtomLen(pattern, i) ==
    IF pattern[i] = "\\" THEN 2
    ELSE IF pattern[i] = "["
    THEN (CHOOSE j \in (i + 1)..Len(pattern) :
             /\ pattern[j] = "]"
             /\ \A k \in (i + 1)..(j - 1) : pattern[k] # "]") - i + 1
    ELSE 1

\* the atom of the pattern at position i: an anchor, or the characters it
\* matches (negated: all characters but these)
Atom(pattern, i) ==
    IF pattern[i] = "^" THEN [type |-> "bol", chars |-> {}, negated |-> FALSE]
    ELSE IF pattern[i] = "$" THEN [type |-> "eol", chars |-> {}, negated |-> FALSE]
    ELSE IF pattern[i] = "." THEN [type |-> "chars", chars |-> {"\n"}, negated |-> TRUE]
    ELSE IF pattern[i] = "\\"
    THEN [type |-> "chars", negated |-> FALSE,
          chars |-> IF pattern[i + 1] = "d"
                    THEN {Ordered[k] : k \in 1..10} ELSE {pattern[i + 1]}]
    ELSE IF pattern[i] = "["
    THEN [type |-> "chars", negated |-> FALSE,
          chars |-> ClassChars(SubSeq(pattern, i + 1, i + AtomLen(pattern, i) - 2))]
    ELSE [type |-> "chars", chars |-> {pattern[i]}, negated |-> FALSE]

\* the quantifier of the atom of the pattern at position i, "" when it has none
Quantifier(pattern, i) ==
    LET next == i + AtomLen(pattern, i)
    IN  IF next <= Len(pattern) /\ pattern[next] \in {"?", "*", "+"} THEN pattern[next] ELSE ""

\* the character at position i follows an escaping backslash: the
\* backslashes just before it are odd in number
Escaped(pattern, i) ==
    Cardinality({k \in 1..(i - 1) : \A j \in k..(i - 1) : pattern[j] = "\\"}) % 2 = 1

\* the character at position i is in a class or closes one
InClass(pattern, i) ==
    \E j \in 1..(i - 1) :
        /\ pattern[j] = "[" /\ ~Escaped(pattern, j)
        /\ \A k \in (j + 1)..(i - 1) : pattern[k] # "]"

\* the positions of the pattern where an atom starts
AtomStarts(pattern) ==
    {i \in 1..Len(pattern) :
        /\ ~Escaped(pattern, i) /\ ~InClass(pattern, i)
        /\ pattern[i] \notin {"?", "*", "+"}}

\* the pattern as the sequence of its atoms with their quantifiers
Tokens(pattern) ==
    LET starts == AtomStarts(pattern)
        Start(n) == CHOOSE i \in starts : Cardinality({j \in starts : j <= i}) = n
    IN  [n \in 1..Cardinality(starts) |->
            [atom |-> Atom(pattern, Start(n)), quantifier |-> Quantifier(pattern, Start(n))]]

\* the atom matches the character of the text at position pos
Takes(atom, text, pos) ==
    atom.type = "chars" /\ ((text[pos] \in atom.chars) # atom.negated)

\* the positions of the text where a match of the token can end that starts
\* at one of the positions `starts`
MatchStep(token, text, starts) ==
    LET Runs(least) ==
          {pos \in 1..(Len(text) + 1) :
              \E start \in starts :
                 /\ start + least <= pos
                 /\ \A taken \in start..(pos - 1) : Takes(token.atom, text, taken)}
    IN  IF token.atom.type = "bol" THEN starts \cap {1}
        ELSE IF token.atom.type = "eol" THEN starts \cap {Len(text) + 1}
        ELSE IF token.quantifier = "*" THEN Runs(0)
        ELSE IF token.quantifier = "+" THEN Runs(1)
        ELSE {pos \in Runs(1) : pos - 1 \in starts}
               \cup (IF token.quantifier = "?" THEN starts ELSE {})

RECURSIVE MatchEnds(_, _, _, _, _)
\* the positions where a match of the tokens first..last can end that
\* starts at one of the positions `starts`, by halves of the tokens
MatchEnds(tokens, first, last, text, starts) ==
    IF starts = {} \/ first > last THEN starts
    ELSE IF first = last THEN MatchStep(tokens[first], text, starts)
    ELSE LET middle == (first + last) \div 2
             ends == MatchEnds(tokens, first, middle, text, starts)
         IN  IF ends = {} THEN {}
             ELSE MatchEnds(tokens, middle + 1, last, text, ends)

\* re.search(pattern, text) finds a match, for the patterns made of
\* characters, escapes, classes, the quantifiers ?, * and +, and anchors
re_search(pattern, text) ==
    LET tokens == Tokens(pattern)
    IN  MatchEnds(tokens, 1, Len(tokens), text, 1..(Len(text) + 1)) # {}

\* a call parse_manifest_patterns on a document with one record, which has
\* an expiry, one destination and a pretty name
ParseManifestPatterns ==
    /\ response[1].op = "manifest"
    /\ response' = [response EXCEPT ![1] =
          [op |-> "parse_manifest_patterns", bucket_path |-> response[1].bucket_path,
           destination |-> response[1].destination, pretty_name |-> response[1].pretty_name,
           pattern |-> final_pattern(response[1].bucket_path, response[1].destination,
                                     response[1].pretty_name),
           text |-> response[1].text]]
    /\ UNCHANGED <<now, up, lock_file, files, thread_lock, current_fetch, starter, pending, threads,
                   history>>

\* the REGEXP function applied to the compiled pattern and an object name
RegexpFunction ==
    /\ response[1].op = "parse_manifest_patterns"
    /\ response' = [response EXCEPT ![1] =
          [response[1] EXCEPT !.op = "REGEXP"] @@
          [matched |-> re_search(response[1].pattern, response[1].text)]]
    /\ UNCHANGED <<now, up, lock_file, files, thread_lock, current_fetch, starter, pending, threads,
                   history>>

----------------------------------------------------------------------------
(* api/manifest_routes.py and direct calls of the linker.                    *)

\* how many Manifest Entry ids a replacement by doc would use
IdsWithin(db_name, doc) ==
    files[db_name].entry_seq + Len(PatternEntries(doc.mapping)) <= MaxEntryId

ManifestFrame == UNCHANGED <<now, up, lock_file, thread_lock, current_fetch, starter, pending, threads>>

\* POST /manifest/parse: clear the links when a manifest is stored, fetch and
\* parse (and store) the document, link
ParseManifest(db_name, doc, fetch_ok) ==
    /\ db_exists(files, db_name)
    /\ IdsWithin(db_name, doc)
    /\ LET cleared == IF IsSome(get_current_manifest(files, db_name))
                      THEN clear_manifest_links(files, db_name) ELSE files
       IN  \E parsed \in fetch_and_parse_manifest(cleared, db_name, doc, fetch_ok, now) :
             IF ~parsed.result.success
             THEN /\ files' = parsed.files
                  /\ response' = [response EXCEPT ![1] =
                        [op |-> "parse_manifest", status |-> 400, error |-> "parse_failed",
                         details |-> parsed.result.error]]
                  /\ history' = [history EXCEPT !.last = Last("parse_manifest", 1, 0, "failed"),
                                                !.doc = Some(doc), !.fetch_ok = fetch_ok,
                                                !.before = files[db_name].objects,
                                                !.skipped = {}]
             ELSE \E skipped \in SUBSET DOMAIN parsed.files[db_name].manifest_entries :
                  LET linked == link_objects_to_manifest_entries(parsed.files[db_name], skipped)
                  IN  /\ files' = [parsed.files EXCEPT ![db_name] = linked.store]
                      /\ response' = [response EXCEPT ![1] =
                            [op |-> "parse_manifest", status |-> 200,
                             cached |-> parsed.result.cached,
                             patterns_count |-> parsed.result.patterns_count,
                             linking_stats |-> linked.stats]]
                      /\ history' = [history EXCEPT
                            !.last = Last("parse_manifest", 1, 0,
                                          IF parsed.result.cached THEN "cached" ELSE "loaded"),
                            !.doc = Some(doc), !.fetch_ok = fetch_ok,
                            !.before = EmptyObjects, !.skipped = skipped]
    /\ ManifestFrame

\* POST /manifest/recalculate/<db_name>
RecalculateManifest(db_name) ==
    /\ db_exists(files, db_name)
    /\ IF ~IsSome(get_current_manifest(files, db_name))
       THEN /\ response' = [response EXCEPT ![1] =
                  [op |-> "recalculate_manifest", status |-> 400, error |-> "no_manifest"]]
            /\ history' = [history EXCEPT !.last = Last("recalculate_manifest", 1, 0, "no_manifest"),
                                          !.doc = None, !.fetch_ok = TRUE,
                                          !.before = EmptyObjects, !.skipped = {}]
            /\ UNCHANGED files
       ELSE \E skipped \in SUBSET DOMAIN files[db_name].manifest_entries :
            LET cleared == clear_manifest_links(files, db_name)
                linked == link_objects_to_manifest_entries(cleared[db_name], skipped)
            IN  /\ files' = [files EXCEPT ![db_name] = linked.store]
                /\ response' = [response EXCEPT ![1] =
                      [op |-> "recalculate_manifest", status |-> 200, linking_stats |-> linked.stats]]
                /\ history' = [history EXCEPT !.last = Last("recalculate_manifest", 1, 0, "ok"),
                                              !.doc = None, !.fetch_ok = TRUE,
                                              !.before = EmptyObjects, !.skipped = skipped]
    /\ ManifestFrame

\* POST /manifest/clear/<db_name>
ClearManifest(db_name) ==
    /\ db_exists(files, db_name)
    /\ files' = [files EXCEPT ![db_name].objects = UnlinkAll(@),
                              ![db_name].manifest_entries = EmptyEntries,
                              ![db_name].manifest = None]
    /\ response' = [response EXCEPT ![1] = [op |-> "clear_manifest", status |-> 200]]
    /\ history' = [history EXCEPT !.last = Last("clear_manifest", 1, 0, ""),
                                  !.doc = None, !.fetch_ok = TRUE,
                                  !.before = EmptyObjects, !.skipped = {}]
    /\ ManifestFrame

\* POST /manifest/clear/<db_name> on worker p, its first transaction:
\* clear_manifest_links, which commits
ClearManifestUnlink(p, db_name) ==
    /\ pending[p] = None
    /\ db_exists(files, db_name)
    /\ files' = clear_manifest_links(files, db_name)
    /\ pending' = [pending EXCEPT ![p] = Some([op |-> "clear_manifest", db_name |-> db_name])]
    /\ history' = [history EXCEPT !.last = Last("clear_manifest_unlink", p, 0, ""),
                                  !.doc = None, !.fetch_ok = TRUE,
                                  !.before = EmptyObjects, !.skipped = {}]
    /\ UNCHANGED <<now, up, lock_file, thread_lock, current_fetch, starter, threads, response>>

\* the second transaction of the route: DELETE FROM manifest_entries, DELETE
\* FROM manifest, commit
ClearManifestDelete(p) ==
    /\ IsSome(pending[p]) /\ Get(pending[p]).op = "clear_manifest"
    /\ LET db_name == Get(pending[p]).db_name
       IN  files' = [files EXCEPT ![db_name].manifest_entries = EmptyEntries,
                                  ![db_name].manifest = None]
    /\ response' = [response EXCEPT ![p] = [op |-> "clear_manifest", status |-> 200]]
    /\ pending' = [pending EXCEPT ![p] = None]
    /\ history' = [history EXCEPT !.last = Last("clear_manifest_delete", p, 0, ""),
                                  !.doc = None, !.fetch_ok = TRUE,
                                  !.before = EmptyObjects, !.skipped = {}]
    /\ UNCHANGED <<now, up, lock_file, thread_lock, current_fetch, starter, threads>>

\* a direct call of link_objects_to_manifest_entries(db_name); the flag
\* tells whether the step before it was such a call too
LinkObjects(db_name) ==
    /\ db_exists(files, db_name)
    /\ \E skipped \in SUBSET DOMAIN files[db_name].manifest_entries :
         LET linked == link_objects_to_manifest_entries(files[db_name], skipped)
         IN  /\ files' = [files EXCEPT ![db_name] = linked.store]
             /\ response' = [response EXCEPT ![1] = [op |-> "link", stats |-> linked.stats]]
             /\ history' = [history EXCEPT
                   !.last = Last("link", 1, 0, IF history.last.op = "link" THEN "again" ELSE "first"),
                   !.doc = None, !.fetch_ok = TRUE, !.before = EmptyObjects,
                   !.skipped = skipped]
    /\ ManifestFrame

\* a direct call of clear_manifest_links(db_name)
ClearManifestLinks(db_name) ==
    /\ db_exists(files, db_name)
    /\ files' = clear_manifest_links(files, db_name)
    /\ response' = [response EXCEPT ![1] = [op |-> "clear_manifest_links"]]
    /\ history' = [history EXCEPT !.last = Last("clear_manifest_links", 1, 0, ""),
                                  !.doc = None, !.fetch_ok = TRUE,
                                  !.before = EmptyObjects, !.skipped = {}]
    /\ ManifestFrame

\* a direct call of store_manifest(db_name, url, manifest_hash, patterns)
\* with the hash and the pattern data of a document
StoreManifest(db_name, doc) ==
    /\ db_exists(files, db_name)
    /\ doc.kind = "yaml"
    /\ IdsWithin(db_name, doc)
    /\ \E stored \in store_manifest(files[db_name], ManifestUrl, manifest_hash(doc),
                                     PatternEntries(doc.mapping), now) :
         /\ files' = [files EXCEPT ![db_name] = stored.store]
         /\ response' = [response EXCEPT ![1] = [op |-> "store_manifest", raised |-> ~stored.ok]]
         /\ history' = [history EXCEPT
               !.last = Last("store_manifest", 1, 0,
                             IF ~stored.ok THEN "raised"
                             ELSE IF get_current_manifest(files, db_name) # None
                                       /\ Get(get_current_manifest(files, db_name)).hash = manifest_hash(doc)
                                  THEN "same_hash" ELSE "replaced"),
               !.doc = Some(doc), !.fetch_ok = TRUE,
               !.before = files[db_name].objects, !.skipped = {}]
    /\ ManifestFrame

----------------------------------------------------------------------------
(* Queries: direct calls of get_objects_page and get_object_names_filtered,  *)
(* and api/fetch_routes.py: list_objects.  A worker answers one request at a *)
(* time.                                                                     *)

\* a query writes nothing
QueryFrame ==
    UNCHANGED <<now, up, lock_file, files, thread_lock, current_fetch, starter, pending, threads>>

Idle(p) == response[p].op = "none"

\* the answer has been sent to the caller
Respond(p) ==
    /\ ~Idle(p)
    /\ response' = [response EXCEPT ![p] = [op |-> "none"]]
    /\ UNCHANGED history
    /\ QueryFrame

\* a direct call of get_objects_page with the arguments of one of `calls`
GetObjectsPage(db_name, calls) ==
    /\ Idle(1)
    /\ db_exists(files, db_name)
    /\ \E call \in calls :
         \E result \in get_objects_page(files[db_name], call.page, call.page_size,
                                        call.filters, call.sort) :
            response' = [response EXCEPT ![1] =
               [op |-> "get_objects_page", page |-> call.page, page_size |-> call.page_size,
                filters |-> call.filters, sort |-> call.sort, result |-> result]]
    /\ history' = [history EXCEPT !.queries = 2]
    /\ QueryFrame

\* a direct call of get_object_names_filtered with one of `filter_sets`
GetObjectNamesFiltered(db_name, filter_sets) ==
    /\ Idle(1)
    /\ db_exists(files, db_name)
    /\ \E filters \in filter_sets :
         response' = [response EXCEPT ![1] =
            [op |-> "get_object_names_filtered", filters |-> filters,
             names |-> get_object_names_filtered(files[db_name], filters)]]
    /\ history' = [history EXCEPT !.queries = 1]
    /\ QueryFrame

\* min(int(request.args.get('page_size', 200)), 1000)
MaxPageSize == 1000

Min(a, b) == IF a <= b THEN a ELSE b

\* validate_regex: the error of a pattern, None for a valid or empty one
validate_regex(pattern) == IF pattern.kind = "invalid" THEN Some("Invalid regex") ELSE None

\* a pattern with capturing groups: their number, the numbers that its
\* backreferences \k name, and the names of its named groups; lang is what it
\* matches when it is compiled on its own
GroupPattern(lang, groups, backrefs, names) ==
    [kind |-> "regex", lang |-> lang, groups |-> groups, backrefs |-> backrefs,
     names |-> names]

Groups(pattern) == IF "groups" \in DOMAIN pattern THEN pattern.groups ELSE 0

Backrefs(pattern) == IF "backrefs" \in DOMAIN pattern THEN pattern.backrefs ELSE {}

GroupNames(pattern) == IF "names" \in DOMAIN pattern THEN pattern.names ELSE {}

RECURSIVE GroupsBefore(_, _)
\* the number of the capturing groups of the first j patterns of a list
GroupsBefore(patterns_list, j) ==
    IF j = 0 THEN 0 ELSE GroupsBefore(patterns_list, j - 1) + Groups(patterns_list[j])

\* "|".join(f"({pattern})"): the text is compiled by _regexp_function, not
\* by validate_regex.  The group that wraps pattern j has the number
\* j + GroupsBefore(j - 1), so that \k in pattern j names a group at or
\* before its wrapper (the backreferences of the patterns here are \1).  The
\* wrapper itself is open at the reference, and a group name defined twice
\* is refused: re.compile raises and nothing matches.  A reference to a
\* group of another alternative never matches, because that group is unset.
Alternation(patterns_list) ==
    LET Wrapper(j) == j + GroupsBefore(patterns_list, j - 1)
        indices == 1..Len(patterns_list)
    IN  IF \/ \E j \in indices : Wrapper(j) \in Backrefs(patterns_list[j])
           \/ \E i, j \in indices :
                 i # j /\ GroupNames(patterns_list[i]) \cap GroupNames(patterns_list[j]) # {}
        THEN [kind |-> "invalid", lang |-> {}]
        ELSE RegexPattern(UNION {patterns_list[j].lang :
                                    j \in {i \in indices : Backrefs(patterns_list[i]) = {}}})

\* optimize_regex_patterns: more than 20 patterns become one alternation
optimize_regex_patterns(patterns_list) ==
    IF Len(patterns_list) > 20 THEN <<Alternation(patterns_list)>> ELSE patterns_list

NotEmpty(patterns) == SelectSeq(patterns, LAMBDA f : f.kind # "empty")

\* the answer of a route that refuses a request
Refusal(op, status, error, db_name, args) ==
    [op |-> op, status |-> status, error |-> error, db_name |-> db_name, args |-> args]

\* the validation both routes run on the query parameters, in its order: the
\* error of the first parameter that is refused, None when none is
FilterError(args) ==
    IF IsSome(args.regex) /\ Get(args.regex).kind # "empty"
         /\ IsSome(validate_regex(Get(args.regex)))
    THEN Some("invalid_regex")
    ELSE IF \E i \in 1..Len(args.regex_filters) :
               args.regex_filters[i].kind # "empty"
                 /\ IsSome(validate_regex(args.regex_filters[i]))
    THEN Some("invalid_regex")
    ELSE IF \E i \in 1..Len(args.manifest_patterns) :
               args.manifest_patterns[i].kind # "empty"
                 /\ IsSome(validate_regex(args.manifest_patterns[i]))
    THEN Some("invalid_regex")
    ELSE IF IsSome(args.created_before) /\ ~Get(args.created_before).valid
    THEN Some("invalid_date")
    ELSE IF IsSome(args.has_custom_time) /\ Get(args.has_custom_time) # ""
              /\ Lower(Get(args.has_custom_time)) \notin {"true", "false", "yes", "no"}
    THEN Some("invalid_boolean")
    ELSE None

\* the keyword arguments both routes pass to the query: regex_filter, and
\* as regex_filters the patterns of regex, regex_filters[] and
\* manifest_patterns[] that are not empty, combined when they are many
RouteFilters(args) ==
    [regex_filter |-> args.regex,
     regex_filters |->
         optimize_regex_patterns(
             (IF IsSome(args.regex) /\ Get(args.regex).kind # "empty"
              THEN <<Get(args.regex)>> ELSE <<>>)
               \o NotEmpty(args.regex_filters) \o NotEmpty(args.manifest_patterns)),
     created_before |-> IF IsSome(args.created_before)
                        THEN Some(Get(args.created_before).instant) ELSE None,
     has_custom_time |-> args.has_custom_time,
     use_manifest_filtering |-> FALSE,
     exclude_manifest_matches |-> FALSE]

\* GET /<db_name>/objects: the answers [answer, queries] of the route, queries
\* being the number of statements it ran on the store.  args are the query
\* parameters: regex (a pattern or None), regex_filters and
\* manifest_patterns (lists of patterns), created_before (None or a text:
\* whether fromisoformat reads it, and its instant), has_custom_time (None
\* or a text), page and page_size (Some integer, or None for a text that
\* int() does not read) and sort.  int() is called outside every try block:
\* its ValueError leaves the view and the framework answers 500.
list_objects(fs, db_name, args) ==
    IF ~safe_db_name(db_name)
    THEN {[answer |-> Refusal("list_objects", 400, "invalid_db_name", db_name, args),
           queries |-> 0]}
    ELSE IF ~db_exists(fs, db_name)
    THEN {[answer |-> Refusal("list_objects", 404, "not_found", db_name, args), queries |-> 0]}
    ELSE IF args.page = None \/ args.page_size = None
    THEN {[answer |-> Refusal("list_objects", 500, "ValueError", db_name, args), queries |-> 0]}
    ELSE IF IsSome(FilterError(args))
    THEN {[answer |-> Refusal("list_objects", 400, Get(FilterError(args)), db_name, args),
           queries |-> 0]}
    ELSE LET page_size == Min(Get(args.page_size), MaxPageSize)
             sort == IF args.sort \in {"name_asc", "name_desc", "time_created_desc",
                                       "time_created_asc"}
                     THEN args.sort ELSE "name_asc"
         IN  {[answer |-> [op |-> "list_objects", status |-> 200, db_name |-> db_name,
                           args |-> args, result |-> result],
               queries |-> 2] :
                result \in get_objects_page(fs[db_name], Get(args.page), page_size,
                                            RouteFilters(args), sort)}

\* GET /<db_name>/download: the answers [answer, queries] of the route; the
\* content of the file is the sequence of the exported names
download_object_list(fs, db_name, args) ==
    IF ~safe_db_name(db_name)
    THEN {[answer |-> Refusal("download_object_list", 400, "invalid_db_name", db_name, args),
           queries |-> 0]}
    ELSE IF ~db_exists(fs, db_name)
    THEN {[answer |-> Refusal("download_object_list", 404, "not_found", db_name, args),
           queries |-> 0]}
    ELSE IF IsSome(FilterError(args))
    THEN {[answer |-> Refusal("download_object_list", 400, Get(FilterError(args)), db_name, args),
           queries |-> 0]}
    ELSE {[answer |-> [op |-> "download_object_list", status |-> 200, db_name |-> db_name,
                       args |-> args,
                       content |-> get_object_names_filtered(fs[db_name], RouteFilters(args))],
           queries |-> 1]}

\* a request GET /<db_name>/objects with the parameters of one of `requests`
ListObjects(db_name, requests) ==
    /\ Idle(1)
    /\ \E args \in requests :
         \E out \in list_objects(files, db_name, args) :
            /\ response' = [response EXCEPT ![1] = out.answer]
            /\ history' = [history EXCEPT !.queries = out.queries]
    /\ QueryFrame

\* a request GET /<db_name>/download with the parameters of one of `requests`
DownloadObjectList(db_name, requests) ==
    /\ Idle(1)
    /\ \E args \in requests :
         \E out \in download_object_list(files, db_name, args) :
            /\ response' = [response EXCEPT ![1] = out.answer]
            /\ history' = [history EXCEPT !.queries = out.queries]
    /\ QueryFrame

\* a request on db_name that stands between two steps of its route
Pending(op, db_name) == [op |-> op, db_name |-> db_name]

IsPending(p, op) == IsSome(pending[p]) /\ Get(pending[p]).op = op

\* the answer of the route delete_fetch
Deletion(status, error, db_name) ==
    [op |-> "delete_fetch_route", status |-> status, error |-> error, db_name |-> db_name]

\* DELETE /api/v1/fetches/<db_name>, up to its answer or to the end of its
\* check of the running fetch: is_fetch_running and get_fetch_status each
\* take _thread_lock and release it (a fetch that ends between the two
\* answers as one that ended before the first), and the request goes on
\* without the lock
DeleteFetchCheck(p, db_name) ==
    /\ up[p]
    /\ ~thread_lock[p]
    /\ pending[p] = None
    /\ IF ~safe_db_name(db_name)
       THEN /\ response' = [response EXCEPT ![p] = Deletion(400, "invalid_db_name", db_name)]
            /\ history' = [history EXCEPT !.last = Last("delete_check", p, 0, "refused")]
            /\ UNCHANGED pending
       ELSE IF _is_fetch_running_locked(p) /\ Get(current_fetch[p]).db_name = db_name
       THEN /\ response' = [response EXCEPT ![p] = Deletion(409, "fetch_running", db_name)]
            /\ history' = [history EXCEPT !.last = Last("delete_check", p, 0, "refused")]
            /\ UNCHANGED pending
       ELSE /\ pending' = [pending EXCEPT ![p] = Some(Pending("delete_fetch", db_name))]
            /\ history' = [history EXCEPT !.last = Last("delete_check", p, 0, "passed")]
            /\ UNCHANGED response
    /\ UNCHANGED <<now, up, lock_file, files, thread_lock, current_fetch, starter, threads>>

\* the rest of the route: db_exists, then db_manager.delete_fetch
DeleteFetchRemove(p) ==
    /\ IsPending(p, "delete_fetch")
    /\ LET db_name == Get(pending[p]).db_name
       IN  IF ~db_exists(files, db_name)
           THEN /\ response' = [response EXCEPT ![p] = Deletion(404, "not_found", db_name)]
                /\ UNCHANGED files
           ELSE \E deleted \in delete_fetch(files, db_name) :
                  /\ files' = deleted.files
                  /\ response' = [response EXCEPT ![p] =
                        IF deleted.ok THEN Deletion(200, "", db_name)
                        ELSE Deletion(500, "delete_failed", db_name)]
    /\ pending' = [pending EXCEPT ![p] = None]
    /\ history' = [history EXCEPT !.last = Last("delete_remove", p, 0, "")]
    /\ UNCHANGED <<now, up, lock_file, thread_lock, current_fetch, starter, threads>>

----------------------------------------------------------------------------
(* Specifications.                                                           *)

ShortListings == 0..MaxListing

\* the steps of an ingestion thread whose listing is shorter than a batch
ShortFetchStep(t) ==
    \/ NextBlob(t)
    \/ ListingEnds(t)
    \/ ListingFails(t)
    \/ FlushBatch(t)
    \/ MarkSuccess(t)
    \/ MarkError(t)

\* the steps of an ingestion thread whose listing is empty
EmptyFetchStep(t) ==
    \/ ListingEnds(t)
    \/ ListingFails(t)
    \/ FlushBatch(t)
    \/ MarkSuccess(t)
    \/ MarkError(t)

\* One orchestrator that has the store directory to itself.
Next ==
    \/ Tick
    \/ StartFetch(1, Listings(ShortListings))
    \/ GetFetchStatus(1)
    \/ \E t \in ThreadIds : ShortFetchStep(t)
    \/ \E c \in 0..MaxRuns : CleanupFetch(1, c)

Spec == Init /\ [][Next]_vars

\* Two orchestrators, in two processes, on one store directory; the second
\* one is constructed while the first one works.
NextShared ==
    \/ LongPause
    \/ Construct(2)
    \/ \E p \in Procs :
         \/ StartFetch(p, Listings({0}))
         \/ GetFetchStatus(p)
         \/ \E c \in 0..MaxRuns : CleanupFetch(p, c)
    \/ \E t \in ThreadIds : EmptyFetchStep(t)

SpecShared == Init /\ [][NextShared]_vars

\* the lengths around the batch size that the lister yields in SpecIngest
IngestListings ==
    {0, batch_size - 1, batch_size, batch_size + 1,
     batch_size + batch_size \div 2, 2 * batch_size}

\* One ingestion of a listing as long as one or two batches: start_fetch is
\* called until it has launched the thread.
NextIngest ==
    \/ DOMAIN threads = {} /\ StartFetch(1, Listings(IngestListings) \cup RepeatingListings)
    \/ \E t \in ThreadIds :
         \/ ShortFetchStep(t)
         \/ InsertFullBatch(t)
         \/ UpdateProgress(t)
    \/ \E c \in 0..MaxRuns : CleanupFetch(1, c)

SpecIngest == Init /\ [][NextIngest]_vars

\* Batches upserted into the store of one run.
NextStore == \E db_name \in DOMAIN files : InsertObjectsBatch(db_name, Batches)

SpecStore == InitStore /\ [][NextStore]_vars

\* the stores of two runs: one just created, one finished with an object
InitRuns ==
    /\ now = TicksPerSecond
    /\ up = [p \in Procs |-> p = 1]
    /\ lock_file = NoLock
    /\ \E first \in create_fetch_db([n \in {} |-> None], create_db_name(0), "bucket", None, 0) :
       \E second \in create_fetch_db(first.files, create_db_name(TicksPerSecond), "bucket",
                                     None, TicksPerSecond) :
          /\ first.ok /\ second.ok
          /\ files = update_fetch_status(
                        insert_objects_batch(second.files, create_db_name(0),
                                             <<Entry(1, 1)>>),
                        create_db_name(0), "success", Some(0), Some(1), None, Some(1))
    /\ thread_lock = [p \in Procs |-> FALSE]
    /\ current_fetch = [p \in Procs |-> None]
    /\ starter = [p \in Procs |-> "idle"]
    /\ pending = [p \in Procs |-> None]
    /\ threads = [t \in {} |-> None]
    /\ response = [p \in Procs |-> [op |-> "none"]]
    /\ history = [last |-> Last("init", 1, 0, ""), batch |-> <<>>, before |-> EmptyObjects,
                  doc |-> None, fetch_ok |-> TRUE, skipped |-> {},
                  queries |-> 0]

\* the arguments of the calls of update_fetch_status: every optional argument
\* left out or supplied
UpdateCalls ==
    [status : {"success", "error", "failed"},
     ended_at : {None, Some(TicksPerSecond)},
     record_count : {None, Some(0), Some(MaxNames)},
     error : {None, Some(""), Some("boom")},
     db_size_mb : {None, Some(0)}]

\* the calls that supply the status only
StatusCalls ==
    {call \in UpdateCalls : /\ call.ended_at = None /\ call.record_count = None
                            /\ call.error = None /\ call.db_size_mb = None}

\* the run identifiers of the calls: the two runs, a safe name of no run and
\* a name that is not safe
RunNames ==
    {create_db_name(0), create_db_name(TicksPerSecond), create_db_name(2 * TicksPerSecond),
     <<".", ".">>}

\* Direct calls of the database manager on the stores of two runs.
NextRuns ==
    \/ \E db_name \in RunNames : DeleteFetch(db_name)
    \/ UpdateFetchStatus(create_db_name(TicksPerSecond), UpdateCalls)
    \/ \E db_name \in RunNames : UpdateFetchStatus(db_name, StatusCalls)

SpecRuns == InitRuns /\ [][NextRuns]_vars

\* s3_bucket_paths of the documents: missing, and "pub"
BucketPaths == {<<>>, <<"p", "u", "b">>}

\* "release/${version}/", "release/${version}" and
\* "release/${version}/${locale}"
ManifestDestinations ==
    {<<"r", "e", "l", "e", "a", "s", "e", "/", "$", "{", "v", "e", "r", "s", "i",
       "o", "n", "}", "/">>,
     <<"r", "e", "l", "e", "a", "s", "e", "/", "$", "{", "v", "e", "r", "s", "i",
       "o", "n", "}">>,
     <<"r", "e", "l", "e", "a", "s", "e", "/", "$", "{", "v", "e", "r", "s", "i",
       "o", "n", "}", "/", "$", "{", "l", "o", "c", "a", "l", "e", "}">>}

\* "app-${version}.exe" and "app.exe"
PrettyNames ==
    {<<"a", "p", "p", "-", "$", "{", "v", "e", "r", "s", "i", "o", "n", "}", ".",
       "e", "x", "e">>,
     <<"a", "p", "p", ".", "e", "x", "e">>}

\* the object names the patterns are applied to
ObjectNames ==
    {<<"r", "e", "l", "e", "a", "s", "e", "/", "1", "2", ".", "0", "/", "a", "p",
       "p", "-", "1", "2", ".", "0", ".", "e", "x", "e">>,
     <<"r", "e", "l", "e", "a", "s", "e", "/", "1", "2", ".", "0", "/", "a", "p",
       "p", "-", "1", "2", ".", "0", "b", "1", ".", "z", "i", "p">>,
     <<"/", "r", "e", "l", "e", "a", "s", "e", "/", "1", "2", ".", "0", "/", "/",
       "a", "p", "p", "-", "1", "2", ".", "0", ".", "e", "x", "e">>,
     <<"/", "r", "e", "l", "e", "a", "s", "e", "/", "1", "2", ".", "0", "/", "a",
       "p", "p", "-", "1", "2", ".", "0", ".", "e", "x", "e">>,
     <<"p", "u", "b", "/", "r", "e", "l", "e", "a", "s", "e", "/", "1", "2", ".",
       "0", "/", "a", "p", "p", "-", "1", "2", ".", "0", ".", "e", "x", "e">>,
     <<"p", "u", "b", "/", "r", "e", "l", "e", "a", "s", "e", "/", "1", "2", ".",
       "0", "/", "e", "n", "-", "U", "S", "/", "a", "p", "p", "-", "1", "2", ".",
       "0", ".", "e", "x", "e">>,
     <<"p", "u", "b", "/", "r", "e", "l", "e", "a", "s", "e", "/", "1", "2", ".",
       "0", "b", "1", "/", "d", "e", "/", "a", "p", "p", ".", "e", "x", "e">>,
     <<"/", "r", "e", "l", "e", "a", "s", "e", "/", "1", "2", ".", "0", "/", "x",
       "/", "a", "p", "p", ".", "e", "x", "e">>}

\* a document with one record and an object name
InitCompile ==
    /\ now = 0
    /\ up = [p \in Procs |-> p = 1]
    /\ lock_file = NoLock
    /\ files = [n \in {} |-> None]
    /\ thread_lock = [p \in Procs |-> FALSE]
    /\ current_fetch = [p \in Procs |-> None]
    /\ starter = [p \in Procs |-> "idle"]
    /\ pending = [p \in Procs |-> None]
    /\ threads = [t \in {} |-> None]
    /\ \E bucket_path \in BucketPaths, destination \in ManifestDestinations,
          pretty_name \in PrettyNames, text \in ObjectNames :
          response = [p \in Procs |->
                        IF p = 1
                        THEN [op |-> "manifest", bucket_path |-> bucket_path,
                              destination |-> destination, pretty_name |-> pretty_name,
                              text |-> text]
                        ELSE [op |-> "none"]]
    /\ history = [last |-> Last("init", 1, 0, ""), batch |-> <<>>, before |-> EmptyObjects,
                  doc |-> None, fetch_ok |-> TRUE, skipped |-> {},
                  queries |-> 0]

\* The compilation of the pattern of a record and its application to a name.
NextCompile == ParseManifestPatterns \/ RegexpFunction

SpecCompile == InitCompile /\ [][NextCompile]_vars

\* the store of a finished run that holds every name of Names
InitManifest ==
    /\ now = 0
    /\ up = [p \in Procs |-> p = 1]
    /\ lock_file = NoLock
    /\ \E created \in create_fetch_db([n \in {} |-> None], create_db_name(0), "bucket", None, 0) :
          /\ created.ok
          /\ files = update_fetch_status(
                        insert_objects_batch(created.files, create_db_name(0),
                                             [n \in Names |-> Entry(n, 1)]),
                        create_db_name(0), "success", Some(0), Some(MaxNames), None, Some(1))
    /\ thread_lock = [p \in Procs |-> FALSE]
    /\ current_fetch = [p \in Procs |-> None]
    /\ starter = [p \in Procs |-> "idle"]
    /\ pending = [p \in Procs |-> None]
    /\ threads = [t \in {} |-> None]
    /\ response = [p \in Procs |-> [op |-> "none"]]
    /\ history = [last |-> Last("init", 1, 0, ""), batch |-> <<>>, before |-> EmptyObjects,
                  doc |-> None, fetch_ok |-> TRUE, skipped |-> {},
                  queries |-> 0]

\* Manifests loaded into the store of one run and linked to its entries.
NextManifest ==
    \E db_name \in DOMAIN files :
        \/ \E doc \in Documents, fetch_ok \in BOOLEAN : ParseManifest(db_name, doc, fetch_ok)
        \/ RecalculateManifest(db_name)
        \/ ClearManifest(db_name)
        \/ LinkObjects(db_name)
        \/ ClearManifestLinks(db_name)
        \/ \E doc \in Documents : StoreManifest(db_name, doc)

SpecManifest == InitManifest /\ [][NextManifest]_vars

\* the documents of one record with an expiry and a pretty name
SingleDocuments ==
    {doc \in Documents :
        /\ doc.kind = "yaml" /\ Len(doc.mapping) = 1
        /\ doc.mapping[1].expiry /\ doc.mapping[1].pretty_name # ""}

\* Manifest requests on one store, served by two workers: the requests of
\* worker 1 run between the two transactions of a clear request of worker 2.
NextConcurrent ==
    \E db_name \in DOMAIN files :
        \/ \E doc \in SingleDocuments, fetch_ok \in BOOLEAN : ParseManifest(db_name, doc, fetch_ok)
        \/ RecalculateManifest(db_name)
        \/ LinkObjects(db_name)
        \/ ClearManifestUnlink(2, db_name)
        \/ ClearManifestDelete(2)

SpecConcurrent == InitManifest /\ [][NextConcurrent]_vars

\* the batches that bring one entry, or the first and the last one, again
RelinkBatches ==
    {<<Entry(n, 2)>> : n \in Names} \cup {<<Entry(1, 2), Entry(MaxNames, 1)>>}

\* Entries are upserted into the store of a run again while manifests are
\* stored and linked.
NextRelink ==
    \E db_name \in DOMAIN files :
        \/ \E doc \in SingleDocuments : StoreManifest(db_name, doc)
        \/ LinkObjects(db_name)
        \/ InsertObjectsBatch(db_name, RelinkBatches)

SpecRelink == InitManifest /\ [][NextRelink]_vars

\* the names of the stores that are queried: one more than the manifests of
\* QueryDocuments cover
QueryNames == 1..(MaxNames + 1)

\* object n as listed at version v; at version 0 without a creation time
QueryEntry(n, v) == IF v = 0 THEN [Entry(n, 0) EXCEPT !.time_created = None] ELSE Entry(n, v)

\* the catalogs that are queried: in catalog c object n was listed at
\* version (n * c) % 4, so that creation times are shared, differ or are
\* missing, and custom times are present or not
Catalogs == 0..3

CatalogBatch(c) == [n \in QueryNames |-> QueryEntry(n, (n * c) % 4)]

\* the manifests that are loaded into a queried store: one entry for object
\* 1, and a second one for the objects of Names
QueryDocuments ==
    {[kind |-> "yaml",
      mapping |-> <<[expiry |-> TRUE, pretty_name |-> "app", destination |-> {1}]>>],
     [kind |-> "yaml",
      mapping |-> <<[expiry |-> TRUE, pretty_name |-> "app", destination |-> {1}],
                    [expiry |-> TRUE, pretty_name |-> "app", destination |-> Names]>>]}

\* the stores a finished run, and then a load of a manifest, leave behind
QueryStores(batches, documents) ==
    LET db_name == create_db_name(0)
        Ingested(batch) ==
            LET created == CHOOSE c \in create_fetch_db([n \in {} |-> None], db_name,
                                                        "bucket", None, 0) : c.ok
            IN  update_fetch_status(insert_objects_batch(created.files, db_name, batch),
                                    db_name, "success", Some(0), Some(Len(batch)), None, Some(1))
        Loaded(fs, doc) ==
            LET stored == CHOOSE o \in store_manifest(fs[db_name], ManifestUrl, manifest_hash(doc),
                                                      PatternEntries(doc.mapping), 0) : o.ok
            IN  [fs EXCEPT ![db_name] = link_objects_to_manifest_entries(stored.store, {}).store]
    IN  {Ingested(batch) : batch \in batches}
          \cup {Loaded(Ingested(batch), doc) : batch \in batches, doc \in documents}

InitQueries(stores) ==
    /\ now = 0
    /\ up = [p \in Procs |-> p = 1]
    /\ lock_file = NoLock
    /\ files \in stores
    /\ thread_lock = [p \in Procs |-> FALSE]
    /\ current_fetch = [p \in Procs |-> None]
    /\ starter = [p \in Procs |-> "idle"]
    /\ pending = [p \in Procs |-> None]
    /\ threads = [t \in {} |-> None]
    /\ response = [p \in Procs |-> [op |-> "none"]]
    /\ history = [last |-> Last("init", 1, 0, ""), batch |-> <<>>, before |-> EmptyObjects,
                  doc |-> None, fetch_ok |-> TRUE, skipped |-> {},
                  queries |-> 0]

InitQuery == InitQueries(QueryStores({CatalogBatch(c) : c \in Catalogs}, QueryDocuments))

\* the filters of the direct calls
QueryFilters ==
    [regex_filter : {None, Some(RegexPattern({1}))},
     regex_filters : {<<>>, <<EmptyPattern, RegexPattern({MaxNames + 1})>>},
     created_before : {None, Some(2)},
     has_custom_time : {None, Some("YES"), Some("false")},
     use_manifest_filtering : BOOLEAN,
     exclude_manifest_matches : BOOLEAN]

Sorts == {"name_asc", "name_desc", "time_created_asc", "time_created_desc"}

PageSizes == {-1, 0, 1, 2}

\* Queries of a store that no one writes.
NextQuery ==
    \E db_name \in DOMAIN files :
        \/ GetObjectsPage(db_name, [page : 1..(MaxNames + 2), page_size : PageSizes,
                                     filters : QueryFilters, sort : Sorts])
        \/ GetObjectNamesFiltered(db_name, QueryFilters)
        \/ Respond(1)

SpecQuery == InitQuery /\ [][NextQuery]_vars

\* the stores that are listed: one of a few objects and one of more objects
\* than the largest page
InitListObjects ==
    InitQueries(QueryStores({[n \in Names |-> Entry(n, 1)],
                             [n \in 1..(MaxPageSize + 1) |-> Entry(n, 1)]}, {}))

\* the query parameters of the requests
ListRequests ==
    [regex : {None, Some(RegexPattern({1})), Some([kind |-> "invalid", lang |-> {}])},
     regex_filters : {<<>>, <<EmptyPattern>>, <<[kind |-> "invalid", lang |-> {}]>>},
     manifest_patterns : {<<>>, <<RegexPattern({MaxNames})>>,
                          <<RegexPattern({MaxNames}), [kind |-> "invalid", lang |-> {}]>>},
     created_before : {None, Some([valid |-> FALSE, instant |-> 0]),
                       Some([valid |-> TRUE, instant |-> 2])},
     has_custom_time : {None, Some("maybe"), Some("True")},
     page : {Some(1), Some(2)},
     page_size : {Some(n) : n \in {-1, 0, 1, 200, MaxPageSize, MaxPageSize + 1, 5000}},
     sort : {"name_asc", "name_desc", "newest"}]

\* the requests that differ in the parameters of the filter only
FilterRequests ==
    {args \in ListRequests :
        args.page = Some(1) /\ args.page_size = Some(200) /\ args.sort = "name_asc"}

\* the requests whose page or page_size is no integer
MalformedRequests ==
    {[args EXCEPT !.page = None] : args \in FilterRequests}
      \cup {[args EXCEPT !.page_size = None] : args \in FilterRequests}

\* the patterns of the long lists: two without groups, "(b)\1"-like with a
\* backreference, and two with the named group x
ListedPatterns ==
    {RegexPattern({1}), RegexPattern({MaxNames}),
     GroupPattern({1}, 1, {1}, {}),
     GroupPattern({1}, 1, {}, {"x"}), GroupPattern({MaxNames}, 1, {}, {"x"})}

\* the requests with 20 and with 21 patterns in regex_filters[]: a first and a
\* last pattern around copies of a pattern that matches the last name of the
\* large store only
ManyPatternRequests ==
    {[regex |-> None,
      regex_filters |-> <<first>> \o [i \in 1..copies |-> RegexPattern({MaxPageSize + 1})]
                          \o <<last>>,
      manifest_patterns |-> <<>>, created_before |-> None, has_custom_time |-> None,
      page |-> Some(1), page_size |-> Some(200), sort |-> "name_asc"] :
        first \in ListedPatterns, last \in ListedPatterns, copies \in {18, 19}}

\* run identifiers of no store: one that is a safe name, one that is not
OtherNames == {create_db_name(TicksPerSecond), <<".", ".">>}

\* Requests for pages of the objects of a store that no one writes.
NextListObjects ==
    \/ \E db_name \in DOMAIN files :
          \/ ListObjects(db_name, ListRequests \cup MalformedRequests)
          \/ DownloadObjectList(db_name, FilterRequests \cup ManyPatternRequests)
    \/ \E db_name \in OtherNames :
          \/ ListObjects(db_name, FilterRequests)
          \/ DownloadObjectList(db_name, FilterRequests)
    \/ Respond(1)

SpecListObjects == InitListObjects /\ [][NextListObjects]_vars

\* the runs that delete requests name: the runs started in the first two
\* seconds, and a name that is not safe
DeleteNames == {create_db_name(0), create_db_name(TicksPerSecond), <<".", ".">>}

\* One orchestrator that starts runs and answers delete requests while its
\* ingestion threads work.
NextDelete ==
    \/ Tick
    \/ StartFetch(1, Listings({0}))
    \/ \E t \in ThreadIds : EmptyFetchStep(t)
    \/ \E c \in 0..MaxRuns : CleanupFetch(1, c)
    \/ \E db_name \in DeleteNames : DeleteFetchCheck(1, db_name)
    \/ DeleteFetchRemove(1)

SpecDelete == Init /\ [][NextDelete]_vars

\* the modification times of the lock file that a process finds when it
\* starts StaleHours hours after midnight: StaleHours hours before, one and
\* two ticks less than that, and the present
LockTimes == {0, 1, 2, StaleHours * TicksPerHour}

\* No orchestrator is constructed yet; a prior process may have left its
\* lock file behind.
InitStartup ==
    /\ now = StaleHours * TicksPerHour
    /\ up = [p \in Procs |-> FALSE]
    /\ lock_file \in {NoLock} \cup {[exists |-> TRUE, mtime |-> m] : m \in LockTimes}
    /\ files = [n \in {} |-> None]
    /\ thread_lock = [p \in Procs |-> FALSE]
    /\ current_fetch = [p \in Procs |-> None]
    /\ starter = [p \in Procs |-> "idle"]
    /\ pending = [p \in Procs |-> None]
    /\ threads = [t \in {} |-> None]
    /\ response = [p \in Procs |-> [op |-> "none"]]
    /\ history = [last |-> Last("init", 0, 0, ""), batch |-> <<>>, before |-> EmptyObjects,
                  doc |-> None, fetch_ok |-> TRUE, skipped |-> {},
                  queries |-> 0]

\* The processes start, at any time of the hour, and answer status requests.
NextStartup ==
    \/ Tick
    \/ \E p \in Procs :
         \/ Construct(p)
         \/ GetFetchStatus(p)

SpecStartup == InitStartup /\ [][NextStartup]_vars

----------------------------------------------------------------------------
(* Properties of the Fetch Orchestrator.                                     *)

IsStart(h, p) == h.last.op = "start_fetch" /\ h.last.proc = p

\* C1: a start_fetch made while an ingestion thread of the same process has
\* not finished its cleanup returns "already running", creates no store and
\* launches no thread.
C1_SecondStartRefused ==
    [][\A p \in Procs :
         (IsStart(history', p) /\ Running(p) # {}) =>
            /\ response'[p] = [op |-> "start_fetch", outcome |-> "already_running"]
            /\ files' = files
            /\ threads' = threads]_vars

C1_Witness ==
    \E p \in Procs :
        /\ IsStart(history, p)
        /\ history.last.flag = "already_running"
        /\ Running(p) # {}

\* C2: at most one thread executes _run_fetch in a process.
C2_AtMostOneIngestion == \A p \in Procs : Cardinality(Running(p)) <= 1

\* C3: while a run is in progress in one process and the lock file exists,
\* get_fetch_status of another process on the same store directory reports
\* running and its start_fetch returns "already running".
C3_OtherInstanceSeesRun ==
    [][\A q \in Procs :
         (/\ history'.last.proc = q
          /\ history'.last.op \in {"get_fetch_status", "start_fetch"}
          /\ lock_file.exists
          /\ \E t \in DOMAIN threads : threads[t].proc # q /\ threads[t].pc # "done")
         => IF history'.last.op = "get_fetch_status"
            THEN response'[q].running
            ELSE response'[q].outcome = "already_running"]_vars

IsCleanup(h, t) == h.last.op = "cleanup" /\ h.last.tid = t

\* C4 as stated: when the cleanup of an ingestion thread has run, the lock
\* file is gone and the run state of the process is empty.
C4_LockAlwaysRemoved ==
    \A t \in DOMAIN threads :
        IsCleanup(history, t) =>
            ~lock_file.exists /\ current_fetch[threads[t].proc] = None

\* C4 as amended: every way _run_fetch ends passes through its cleanup, which
\* is never blocked; the cleanup empties the run state of the process, and
\* removes the lock file unless the removal itself fails (a failure that is
\* logged and ignored); after it get_fetch_status reports not running and
\* start_fetch is not refused as already running.
C4_CleanupOnEveryPath ==
    [][\A t \in DOMAIN threads' :
         /\ threads'[t].pc = "done" => threads'[t].cleaned
         /\ threads'[t].pc = "cleanup" => ~thread_lock'[threads'[t].proc]
         /\ IsCleanup(history', t) =>
              /\ threads[t].pc = "cleanup" /\ threads'[t].pc = "done"
              /\ current_fetch'[threads'[t].proc] = None
              /\ ~(IsSome(current_fetch'[threads'[t].proc]) /\ lock_file'.exists)
              /\ (lock_file'.exists => history'.last.flag = "remove_failed")]_vars

C4_Witness ==
    \E t \in DOMAIN threads :
        /\ IsCleanup(history, t)
        /\ threads[t].escaped
        /\ history.last.flag = "removed"

\* C5: when create_fetch_db fails in start_fetch, the call returns a failure,
\* the lock file it wrote is removed, the run state is empty and the mutex is
\* free for later calls.
C5_StartRollsBack ==
    \A p \in Procs :
        (IsStart(history, p) /\ history.last.flag = "create_failed") =>
            /\ response[p] = [op |-> "start_fetch", outcome |-> "create_failed"]
            /\ ~thread_lock[p]
            /\ ~lock_file.exists
            /\ current_fetch[p] = None

\* C6: when the lock file cannot be written, start_fetch fails, creates no
\* store, launches no thread and leaves the run state empty, so that
\* get_fetch_status still reports not running.
C6_LockFailureCreatesNoRun ==
    [][\A p \in Procs :
         (IsStart(history', p) /\ history'.last.flag = "lock_failed") =>
            /\ response'[p] = [op |-> "start_fetch", outcome |-> "lock_failed"]
            /\ files' = files
            /\ threads' = threads
            /\ current_fetch'[p] = None
            /\ ~(IsSome(current_fetch'[p]) /\ lock_file'.exists)]_vars

C6_Witness ==
    \E p \in Procs :
        /\ IsStart(history, p)
        /\ history.last.flag = "lock_failed"
        /\ lock_file.exists

\* C7: the run identifier of a start_fetch that succeeds differs from the
\* identifier of every run in the store directory, and is path-safe.
C7_RunIdUniqueAndSafe ==
    [][\A p \in Procs :
         (IsStart(history', p) /\ history'.last.flag = "ok") =>
            /\ response'[p].db_name \notin list_fetches(files)
            /\ safe_db_name(response'[p].db_name)]_vars

C7_Witness ==
    \E p \in Procs :
        /\ IsStart(history, p)
        /\ history.last.flag = "ok"
        /\ \E n \in list_fetches(files) :
             /\ n # response[p].db_name
             /\ Get(files[n].fetch).status # "running"

----------------------------------------------------------------------------
(* Properties of the ingestion procedure.                                    *)

FetchRow(t) == Get(files[threads[t].db_name].fetch)

Objects(t) == files[threads[t].db_name].objects

\* the lengths of the batches of a listing of n entries: the full batches,
\* then the partial one
ExpectedBatches(n) ==
    [k \in 1..((n + batch_size - 1) \div batch_size) |->
        IF k * batch_size <= n THEN batch_size ELSE n % batch_size]

\* C8: a listing of N entries with distinct names that is ingested without a
\* failure ends with status success, an end timestamp, record_count = N and N
\* Catalog Entries, upserted as floor(N / batch_size) full batches and then
\* the partial batch; page 2 of page size batch_size holds the entries after
\* the first batch_size ones in name order, 500 of them for N = 1500.
C8_IngestsWholeListing ==
    \A t \in DOMAIN threads :
        (/\ threads[t].pc = "done"
         /\ threads[t].error = None
         /\ threads[t].listing.len <= threads[t].listing.names) =>
            LET n == threads[t].listing.len
            IN  /\ FetchRow(t).status = "success"
                /\ IsSome(FetchRow(t).ended_at)
                /\ FetchRow(t).record_count = n
                /\ DOMAIN Objects(t) = 1..n
                /\ \A i \in 1..n :
                     Objects(t)[Blob(threads[t].listing, i).name]
                        = ObjectRow(ObjData(Blob(threads[t].listing, i)))
                /\ threads[t].batches = ExpectedBatches(n)
                /\ NameAscPage(DOMAIN Objects(t), 2, batch_size)
                     = [i \in 1..(IF n > batch_size THEN n - batch_size ELSE 0) |-> batch_size + i]
                /\ n = 1500 => Len(NameAscPage(DOMAIN Objects(t), 2, 1000)) = 500

C8_Witness ==
    \E t \in DOMAIN threads :
        /\ threads[t].pc = "done"
        /\ threads[t].error = None
        /\ threads[t].listing.len = 1500
        /\ threads[t].batches = <<1000, 500>>

\* C9: an ingestion in which a step of streaming or writing failed ends
\* without an exception leaving _run_fetch, with the Fetch Run row at status
\* error, with an end timestamp, the message of the failure and the count of
\* the entries consumed.
C9_FailureRecorded ==
    \A t \in DOMAIN threads :
        (threads[t].pc = "done" /\ IsSome(threads[t].error)) =>
            /\ ~threads[t].escaped
            /\ FetchRow(t).status = "error"
            /\ IsSome(FetchRow(t).ended_at)
            /\ FetchRow(t).error = threads[t].error
            /\ FetchRow(t).record_count = threads[t].processed_count

----------------------------------------------------------------------------
(* Properties of the Catalog Store.                                          *)

IsInsert(h) == h.last.op = "insert_objects_batch"

\* the Catalog Entries of the store that SpecStore writes
StoreObjects == files[create_db_name(0)].objects

\* the last element of a batch that has the name n
LastOf(batch, n) ==
    batch[CHOOSE i \in 1..Len(batch) :
            /\ batch[i].name = n
            /\ \A j \in (i + 1)..Len(batch) : batch[j].name # n]

\* the fields of a Catalog Entry equal those of the batch element obj
SameFields(row, obj) ==
    /\ row.size = obj.size
    /\ row.updated = obj.updated
    /\ row.time_created = obj.time_created
    /\ row.custom_time = obj.custom_time

\* C10 as stated: after insert_objects_batch of the batch of the call before
\* it, or of a batch that shares a name with the store, the number of Catalog
\* Entries is what it was before the call.
C10_CountUnchanged ==
    (/\ IsInsert(history)
     /\ \/ history.last.flag = "again"
        \/ BatchNames(history.batch) \cap DOMAIN history.before # {})
    => Cardinality(DOMAIN StoreObjects) = Cardinality(DOMAIN history.before)

\* C10 as amended: insert_objects_batch of the batch of the call before it
\* changes nothing; a batch adds one Catalog Entry for each of its names the
\* store did not hold and none for the names it held (so a batch of names
\* that are all held leaves the count unchanged); afterwards the size and the
\* timestamps of every name of the batch are those of its last element with
\* that name, and the other entries are what they were.
C10_UpsertIdempotent ==
    IsInsert(history) =>
        LET batch == history.batch
            before == history.before
        IN  /\ history.last.flag = "again" => StoreObjects = before
            /\ DOMAIN StoreObjects = DOMAIN before \cup BatchNames(batch)
            /\ Cardinality(DOMAIN StoreObjects)
                  = Cardinality(DOMAIN before) + Cardinality(BatchNames(batch) \ DOMAIN before)
            /\ BatchNames(batch) \subseteq DOMAIN before
                  => Cardinality(DOMAIN StoreObjects) = Cardinality(DOMAIN before)
            /\ \A n \in BatchNames(batch) : SameFields(StoreObjects[n], LastOf(batch, n))
            /\ \A n \in DOMAIN before \ BatchNames(batch) : StoreObjects[n] = before[n]

\* a batch with two versions of one name, the newer one first, has been
\* upserted a second time
C10_Witness ==
    /\ IsInsert(history)
    /\ history.last.flag = "again"
    /\ Len(history.batch) = 2
    /\ history.batch[1].name = history.batch[2].name
    /\ history.batch[1].size > history.batch[2].size
    /\ StoreObjects[history.batch[1].name].size = history.batch[2].size

\* the names of the first k blobs of a listing
ArrivedNames(listing, k) ==
    IF k <= listing.names THEN (listing.names - k + 1)..listing.names
    ELSE 1..listing.names

\* the position of the last of the first k blobs of a listing that has the
\* name n
LastArrival(listing, k, n) ==
    LET first == listing.names - n + 1
    IN  first + ((k - first) \div listing.names) * listing.names

\* C11: whenever an ingestion thread has upserted a batch, the store holds
\* exactly one Catalog Entry for each distinct name among the blobs upserted
\* so far, with the size and the timestamps of the last of these blobs that
\* has the name, also when a name occurs twice in a batch or in two batches.
C11_LastWriteWins ==
    \A t \in DOMAIN threads :
        (/\ history.last.tid = t
         /\ history.last.op \in {"insert_full_batch", "flush_batch"}
         /\ history.last.flag = "ok") =>
            LET listing == threads[t].listing
                k == threads[t].pos
            IN  /\ DOMAIN Objects(t) = ArrivedNames(listing, k)
                /\ \A n \in ArrivedNames(listing, k) :
                     /\ Blob(listing, LastArrival(listing, k, n)).name = n
                     /\ LastArrival(listing, k, n) <= k
                     /\ LastArrival(listing, k, n) + listing.names > k
                     /\ SameFields(Objects(t)[n], ObjData(Blob(listing, LastArrival(listing, k, n))))

\* a name that came in the first batch and again in the last one has been
\* upserted twice, and the batches held two names many times
C11_Witness ==
    \E t \in DOMAIN threads :
        /\ history.last.tid = t
        /\ history.last.op = "flush_batch"
        /\ history.last.flag = "ok"
        /\ threads[t].listing.len > threads[t].listing.names
        /\ threads[t].batches = <<batch_size, 2>>
        /\ Cardinality(DOMAIN Objects(t)) = threads[t].listing.names

----------------------------------------------------------------------------
(* Properties of the Manifest and the linker.                                *)

\* the store that SpecManifest works on
ManifestStore == files[create_db_name(0)]

\* the Manifest Entry reference of every Catalog Entry
Links(store) == [n \in DOMAIN store.objects |-> store.objects[n].manifest_entry_id]

\* the Manifest Entries of a store whose pattern matches the name n
Matching(store, n) ==
    {id \in DOMAIN store.manifest_entries :
        _regexp_function(store.manifest_entries[id].regex_pattern, n)}

\* C12: a call of link that directly follows a call of link on the same
\* store, with no clearing in between, returns the linked_objects count of
\* the call before it and changes the Manifest Entry reference of no Catalog
\* Entry.
C12_LinkIdempotent ==
    [][(history'.last.op = "link" /\ history'.last.flag = "again") =>
          /\ response'[1].stats.linked_objects = response[1].stats.linked_objects
          /\ Links(files'[create_db_name(0)]) = Links(ManifestStore)]_vars

\* C13: a link pass leaves the reference of an assigned Catalog Entry as it
\* is, and assigns an unassigned Catalog Entry whose name two or more
\* Manifest Entries match to the one of them with the lowest id.
C13_FirstMatchWins ==
    [][history'.last.op = "link" =>
          \A n \in DOMAIN ManifestStore.objects :
              LET before == ManifestStore.objects[n].manifest_entry_id
                  after == files'[create_db_name(0)].objects[n].manifest_entry_id
              IN  IF IsSome(before) THEN after = before
                  ELSE Cardinality(Matching(ManifestStore, n)) >= 2 =>
                          after = Some(MinOf(Matching(ManifestStore, n)))]_vars

\* C14: a load of the document that the load request directly before it
\* loaded, its fetch succeeding, answers cached = true and leaves the set of
\* Manifest Entries (ids and patterns) and the Manifest Entry reference of
\* every Catalog Entry as they were before it.
C14_SecondLoadCached ==
    [][(/\ history.last.op = "parse_manifest"
        /\ history.last.flag \in {"loaded", "cached"}
        /\ history'.last.op = "parse_manifest"
        /\ history'.doc = history.doc
        /\ history'.fetch_ok) =>
          /\ response'[1].status = 200
          /\ response'[1].cached
          /\ files'[create_db_name(0)].manifest_entries = ManifestStore.manifest_entries
          /\ Links(files'[create_db_name(0)]) = Links(ManifestStore)]_vars

\* the rows of the Manifest Entries in ascending id, each without its id
RowsOf(entries) ==
    [i \in 1..Len(EntriesById(entries)) |->
        [f \in DOMAIN EntriesById(entries)[i] \ {"id"} |-> EntriesById(entries)[i][f]]]

\* C15: a call of store_manifest with a hash other than the stored one
\* either changes nothing (it raised) or, as one change, puts the Manifest
\* row of the new hash, replaces the Manifest Entries by exactly the rows of
\* the new patterns under new ids, and leaves every Catalog Entry unassigned
\* and otherwise as it was; a call that returns has done the latter.  A call
\* with the stored hash changes nothing in the store.
C15_StoreManifestAtomic ==
    [][history'.last.op = "store_manifest" =>
          LET old == ManifestStore
              new == files'[create_db_name(0)]
              doc == Get(history'.doc)
              patterns == PatternEntries(doc.mapping)
              replaced ==
                /\ IsSome(new.manifest)
                /\ Get(new.manifest).hash = manifest_hash(doc)
                /\ Get(new.manifest).url = ManifestUrl
                /\ Get(new.manifest).pattern_count = Len(patterns)
                /\ RowsOf(new.manifest_entries) = [i \in 1..Len(patterns) |-> EntryRow(patterns[i])]
                /\ DOMAIN new.manifest_entries \cap DOMAIN old.manifest_entries = {}
                /\ new.objects = UnlinkAll(old.objects)
                /\ new.fetch = old.fetch
          IN  IF IsSome(old.manifest) /\ Get(old.manifest).hash = manifest_hash(doc)
              THEN new = old /\ ~response'[1].raised
              ELSE IF response'[1].raised THEN new = old ELSE replaced]_vars

\* a manifest with entries and a linked Catalog Entry has been replaced by
\* one of another hash that has entries
C15_Witness ==
    /\ history.last.op = "store_manifest"
    /\ history.last.flag = "replaced"
    /\ \E n \in DOMAIN history.before : IsSome(history.before[n].manifest_entry_id)
    /\ DOMAIN ManifestStore.manifest_entries # {}
    /\ LinkedObjects(ManifestStore.objects) = {}

\* C16: a load request whose fetch fails, whose document is no YAML or no
\* mapping of records, or whose storing raises, is answered by the error
\* parse_failed with the detail of the failure, and leaves the Manifest row
\* and the Manifest Entries of the store exactly as they were.
C16_FailedLoadStoresNothing ==
    [][history'.last.op = "parse_manifest" =>
          LET failed == \/ ~history'.fetch_ok
                        \/ Get(history'.doc).kind # "yaml"
                        \/ history'.last.flag = "failed"
          IN  failed =>
                /\ response'[1].status = 400
                /\ response'[1].error = "parse_failed"
                /\ response'[1].details \in {"Failed to fetch manifest", "Invalid YAML format",
                                            "Unexpected error"}
                /\ history'.fetch_ok = (response'[1].details # "Failed to fetch manifest")
                /\ files'[create_db_name(0)].manifest = ManifestStore.manifest
                /\ files'[create_db_name(0)].manifest_entries = ManifestStore.manifest_entries]_vars

\* the load of a document that is no YAML has failed on a store that holds a
\* manifest with entries
C16_Witness ==
    /\ history.last.op = "parse_manifest"
    /\ history.last.flag = "failed"
    /\ Get(history.doc).kind = "bad_yaml"
    /\ response[1].details = "Invalid YAML format"
    /\ IsSome(ManifestStore.manifest)
    /\ DOMAIN ManifestStore.manifest_entries # {}

----------------------------------------------------------------------------
(* Properties of the queries.                                                *)

\* the store that SpecQuery and SpecListObjects query
QueriedStore == files[create_db_name(0)]

\* the names of the items of a result of get_objects_page, as a sequence
ItemNames(result) == [i \in 1..Len(result.items) |-> result.items[i].name]

Range(seq) == {seq[i] : i \in 1..Len(seq)}

\* the Catalog Entry n satisfies every filter kind that the filters supply:
\* one of the patterns, the creation date, the presence of a custom time
\* and the relationship to the manifest
Satisfies(store, filters, n) ==
    LET row == store.objects[n]
        patterns == AllRegexPatterns(filters)
    IN  /\ patterns # <<>> => \E i \in 1..Len(patterns) : n \in patterns[i].lang
        /\ IsSome(filters.created_before) =>
              IsSome(row.time_created) /\ Get(row.time_created) < Get(filters.created_before)
        /\ IsSome(filters.has_custom_time) =>
              IF Lower(Get(filters.has_custom_time)) \in {"true", "yes"}
              THEN IsSome(row.custom_time) ELSE row.custom_time = None
        /\ IF filters.use_manifest_filtering
           THEN IsSome(row.manifest_entry_id)
                  /\ Get(row.manifest_entry_id) \in DOMAIN store.manifest_entries
           ELSE filters.exclude_manifest_matches => row.manifest_entry_id = None

\* C17: every Catalog Entry that get_objects_page or
\* get_object_names_filtered returns satisfies every supplied filter kind at
\* once, also the patterns when a manifest mode is supplied with them; the
\* names query returns every entry that does, and the total of the page
\* query counts them.
C17_FiltersConjunctive ==
    /\ response[1].op = "get_objects_page" =>
          /\ \A n \in Range(ItemNames(response[1].result)) :
                 Satisfies(QueriedStore, response[1].filters, n)
          /\ response[1].result.total =
                 Cardinality({n \in DOMAIN QueriedStore.objects :
                                 Satisfies(QueriedStore, response[1].filters, n)})
    /\ response[1].op = "get_object_names_filtered" =>
          Range(response[1].names) =
              {n \in DOMAIN QueriedStore.objects : Satisfies(QueriedStore, response[1].filters, n)}

\* positions (page - 1) * page_size up to but excluding page * page_size,
\* counted from 0, of a sequence
Slice(seq, page, page_size) ==
    IF page_size <= 0 THEN <<>>
    ELSE SubSeq(seq, (page - 1) * page_size + 1, Min(page * page_size, Len(seq)))

\* C18: for page >= 1 the items of get_objects_page are the entries at
\* positions (page - 1) * page_size up to but excluding page * page_size of
\* the selected entries in an order of the sort, and total is the number of
\* the selected entries.
C18_PageIsSlice ==
    (response[1].op = "get_objects_page" /\ response[1].page >= 1) =>
        LET selected == Selected(QueriedStore, response[1].filters)
        IN  /\ \E rows \in OrderBy(QueriedStore.objects, selected, response[1].sort) :
                  ItemNames(response[1].result)
                      = Slice(rows, response[1].page, response[1].page_size)
            /\ response[1].result.total = Cardinality(selected)

\* C19: a page that list_objects returns has a page size of at most 1000 and
\* at most 1000 items, whatever integer was requested as page_size.
C19_PageSizeBounded ==
    (response[1].op = "list_objects" /\ response[1].status = 200) =>
        /\ response[1].result.page_size <= MaxPageSize
        /\ Len(response[1].result.items) <= MaxPageSize

\* C20: the names that get_object_names_filtered returns for a set of
\* filters are the names of the items of all pages of get_objects_page for
\* these filters, for every page size of at least 1 and both name sorts, and
\* they are as many as every page reports as total.
C20_NamesEqualPages ==
    response[1].op = "get_object_names_filtered" =>
        \A page_size \in {size \in PageSizes : size >= 1}, sort \in {"name_asc", "name_desc"} :
            LET Pages == {page \in 1..Cardinality(QueryNames) :
                            page_size * (page - 1) < Cardinality(QueryNames)}
                Results(page) == get_objects_page(QueriedStore, page, page_size,
                                                  response[1].filters, sort)
            IN  /\ UNION {Range(ItemNames(result)) : result \in UNION {Results(page) : page \in Pages}}
                     = Range(response[1].names)
                /\ Cardinality(Range(response[1].names)) = Len(response[1].names)
                /\ \A page \in Pages : \A result \in Results(page) :
                      result.total = Len(response[1].names)

\* names were exported under a manifest mode and a custom-time filter that
\* select some of the entries of the store, more than fit on one page
C20_Witness ==
    /\ response[1].op = "get_object_names_filtered"
    /\ response[1].filters.exclude_manifest_matches
    /\ IsSome(response[1].filters.has_custom_time)
    /\ Len(response[1].names) >= 2
    /\ Len(response[1].names) < Cardinality(DOMAIN QueriedStore.objects)


\* the request that a step answers: a step of a route from the idle state
Answers(op) == Idle(1) /\ response'[1].op = op

\* a parameter of the request is invalid: the run identifier is no safe
\* name, a pattern that is not empty does not compile, the date is no ISO
\* date, or the flag is none of true, false, yes and no
InvalidRequest(db_name, args) ==
    \/ ~safe_db_name(db_name)
    \/ IsSome(args.regex) /\ Get(args.regex).kind = "invalid"
    \/ \E i \in 1..Len(args.regex_filters) : args.regex_filters[i].kind = "invalid"
    \/ \E i \in 1..Len(args.manifest_patterns) : args.manifest_patterns[i].kind = "invalid"
    \/ IsSome(args.created_before) /\ ~Get(args.created_before).valid
    \/ /\ IsSome(args.has_custom_time)
       /\ Get(args.has_custom_time) # ""
       /\ Lower(Get(args.has_custom_time)) \notin {"true", "false", "yes", "no"}

\* no statement ran on a store and nothing but the response changed
NothingExecuted ==
    /\ history'.queries = 0
    /\ UNCHANGED <<now, up, lock_file, files, thread_lock, current_fetch, starter, pending, threads>>

\* C21: a request for a page of objects or for the export of the names with
\* an invalid regex filter, date, flag or run identifier is answered by a
\* validation failure (status 400), no statement having run on the store and
\* nothing else having changed.
C21_ValidationPrecedesExecution ==
    [][(/\ Answers("list_objects") \/ Answers("download_object_list")
        /\ InvalidRequest(response'[1].db_name, response'[1].args))
          => (response'[1].status = 400 /\ NothingExecuted)]_vars

\* what holds of C21: a request with an invalid parameter is refused, no
\* statement having run on the store and nothing else having changed
C21_RefusedWithoutExecution ==
    [][(/\ Answers("list_objects") \/ Answers("download_object_list")
        /\ InvalidRequest(response'[1].db_name, response'[1].args))
          => (response'[1].status \in {400, 404, 500} /\ NothingExecuted)]_vars

\* an invalid pattern is answered by the internal error of a page number
\* that is no integer, on a store that holds objects
C21_Witness ==
    /\ response[1].op = "list_objects"
    /\ response[1].status = 500
    /\ response[1].db_name \in DOMAIN files
    /\ files[response[1].db_name].objects # EmptyObjects
    /\ IsSome(response[1].args.regex) /\ Get(response[1].args.regex).kind = "invalid"

\* an invalid pattern in a request for the names of a run that does not
\* exist is answered by not_found
C21_NotFound ==
    /\ response[1].op = "download_object_list"
    /\ response[1].status = 404
    /\ InvalidRequest(response[1].db_name, response[1].args)

\* C22: when create_fetch_db fails in start_fetch, the stores are what they
\* were before the call, or the store of the new run identifier is one that
\* neither db_exists nor list_fetches reports.
C22_CreateAllOrNothing ==
    [][\A p \in Procs :
         (IsStart(history', p) /\ history'.last.flag = "create_failed") =>
            LET db_name == Get(current_fetch'[p]).db_name
            IN  \/ files' = files
                \/ /\ ~db_exists(files', db_name)
                   /\ db_name \notin list_fetches(files')]_vars

\* what holds of C22: the store that a failed create_fetch_db leaves holds no
\* Fetch Run row, and list_fetches does not report it
C22_FailedCreateNotListed ==
    [][\A p \in Procs :
         (IsStart(history', p) /\ history'.last.flag = "create_failed") =>
            LET db_name == Get(current_fetch'[p]).db_name
            IN  \/ files' = files
                \/ db_name \notin list_fetches(files')]_vars

\* the delete_fetch call that a step makes
Deletes(db_name) ==
    /\ response'[1].op = "delete_fetch"
    /\ response'[1].db_name = db_name

\* C23: delete_fetch returns true exactly when the store existed and was
\* removed, and then db_exists is false and list_fetches does not report the
\* run; it returns false and leaves every store as it was for an unsafe
\* name, a missing store and a failed removal; the stores of the other runs
\* are never changed.
C23_DeleteFetch ==
    [][\A db_name \in RunNames :
         Deletes(db_name) =>
            /\ response'[1].ok <=> (db_exists(files, db_name) /\ ~DbExists(files', db_name))
            /\ response'[1].ok =>
                  (~db_exists(files', db_name) /\ db_name \notin list_fetches(files'))
            /\ ~response'[1].ok => files' = files
            /\ \A other \in DOMAIN files \ {db_name} :
                  other \in DOMAIN files' /\ files'[other] = files[other]]_vars

\* a run that list_fetches reported has been deleted and the other is there
C23_Witness ==
    /\ response[1].op = "delete_fetch"
    /\ response[1].ok
    /\ response[1].db_name = create_db_name(0)
    /\ ~db_exists(files, create_db_name(0))
    /\ create_db_name(TicksPerSecond) \in list_fetches(files)

\* the update_fetch_status call that a step completes on a store with its row
Updates(db_name) ==
    /\ response'[1].op = "update_fetch_status"
    /\ response'[1].db_name = db_name
    /\ ~response'[1].raised
    /\ IsSome(files[db_name].fetch)

\* C24: update_fetch_status writes the status, writes each of ended_at,
\* record_count, error and db_size_mb that is supplied, and leaves every
\* column that is not supplied, every other column of the row, the rest of
\* the store and the other stores as they were.
C24_PartialUpdate ==
    [][\A db_name \in RunNames :
         Updates(db_name) =>
            LET call == response'[1].call
                old == Get(files[db_name].fetch)
                new == Get(files'[db_name].fetch)
            IN  /\ new.status = call.status
                /\ new.ended_at = IF IsSome(call.ended_at)
                                  THEN Some(format_timestamp(Get(call.ended_at)))
                                  ELSE old.ended_at
                /\ new.record_count = IF IsSome(call.record_count)
                                      THEN Get(call.record_count) ELSE old.record_count
                /\ new.error = IF IsSome(call.error) THEN call.error ELSE old.error
                /\ new.db_size_mb = IF IsSome(call.db_size_mb)
                                    THEN Get(call.db_size_mb) ELSE old.db_size_mb
                /\ new.bucket_name = old.bucket_name
                /\ new.prefix = old.prefix
                /\ new.started_at = old.started_at
                /\ files' = [files EXCEPT ![db_name].fetch = files'[db_name].fetch]]_vars

\* a call with the status alone has been made on a row whose ended_at,
\* record_count, error and db_size_mb had all been written before
C24_Witness ==
    /\ response[1].op = "update_fetch_status"
    /\ ~response[1].raised
    /\ response[1].call \in StatusCalls
    /\ response[1].db_name = create_db_name(TicksPerSecond)
    /\ LET row == Get(files[response[1].db_name].fetch)
       IN  /\ row.status = response[1].call.status
           /\ IsSome(row.ended_at)
           /\ row.record_count = MaxNames
           /\ row.error = Some("boom")

\* C25: no two Manifest Entries of a store hold the same pattern, and a store
\* that holds the manifest of a document holds as many entries as
\* parse_manifest_patterns reports patterns for the document.
C25_EntriesDeduplicated ==
    \A db_name \in DOMAIN files :
        LET entries == files[db_name].manifest_entries
        IN  /\ \A i, j \in DOMAIN entries :
                  entries[i].regex_pattern = entries[j].regex_pattern => i = j
            /\ IsSome(files[db_name].manifest) =>
                  Cardinality(DOMAIN entries)
                    = Cardinality(parse_manifest_patterns(Get(files[db_name].manifest).hash.sha256))

\* what holds of C25: the patterns of the stored entries are the patterns
\* that parse_manifest_patterns reports for the document
C25_SamePatterns ==
    \A db_name \in DOMAIN files :
        LET entries == files[db_name].manifest_entries
        IN  IsSome(files[db_name].manifest) =>
               {entries[i].regex_pattern : i \in DOMAIN entries}
                 = parse_manifest_patterns(Get(files[db_name].manifest).hash.sha256)

\* the record of C26, in a document without s3_bucket_paths
IsExample(r) ==
    /\ r.bucket_path = <<>>
    /\ r.destination = <<"r", "e", "l", "e", "a", "s", "e", "/", "$", "{", "v",
                        "e", "r", "s", "i", "o", "n", "}", "/">>
    /\ r.pretty_name = <<"a", "p", "p", "-", "$", "{", "v", "e", "r", "s", "i",
                        "o", "n", "}", ".", "e", "x", "e">>

\* C26: the pattern compiled from destination "release/${version}/" and
\* pretty name "app-${version}.exe" without a bucket path is anchored at both
\* ends, matches release/12.0/app-12.0.exe and does not match
\* release/12.0/app-12.0b1.zip.
C26_ExampleCompiles ==
    (response[1].op = "REGEXP" /\ IsExample(response[1])) =>
        /\ Head(response[1].pattern) = "^"
        /\ response[1].pattern[Len(response[1].pattern)] = "$"
        /\ response[1].text = <<"r", "e", "l", "e", "a", "s", "e", "/", "1", "2",
                             ".", "0", "/", "a", "p", "p", "-", "1", "2", ".",
                             "0", ".", "e", "x", "e">>
              => response[1].matched
        /\ response[1].text = <<"r", "e", "l", "e", "a", "s", "e", "/", "1", "2",
                             ".", "0", "/", "a", "p", "p", "-", "1", "2", ".",
                             "0", "b", "1", ".", "z", "i", "p">>
              => ~response[1].matched

\* the text of the pattern of the example:
\* ^/release/\d+\.\d+b?\d?//[A-Za-z0-9-_]*/?app\-\d+\.\d+b?\d?\.exe$
C26_Pattern ==
    (response[1].op = "REGEXP" /\ IsExample(response[1])) =>
        response[1].pattern
          = <<"^", "/", "r", "e", "l", "e", "a", "s", "e", "/", "\\", "d", "+",
              "\\", ".", "\\", "d", "+", "b", "?", "\\", "d", "?", "/", "/", "[",
              "A", "-", "Z", "a", "-", "z", "0", "-", "9", "-", "_", "]", "*",
              "/", "?", "a", "p", "p", "\\", "-", "\\", "d", "+", "\\", ".",
              "\\", "d", "+", "b", "?", "\\", "d", "?", "\\", ".", "e", "x", "e",
              "$">>

\* the pattern of the example matches /release/12.0//app-12.0.exe
C26_Witness ==
    /\ response[1].op = "REGEXP"
    /\ IsExample(response[1])
    /\ response[1].text = <<"/", "r", "e", "l", "e", "a", "s", "e", "/", "1", "2",
                         ".", "0", "/", "/", "a", "p", "p", "-", "1", "2", ".",
                         "0", ".", "e", "x", "e">>
    /\ response[1].matched

\* the counts that a link pass has returned, of a direct call or of the
\* recalculation
ReturnedStats ==
    IF response[1].op = "link" THEN Some(response[1].stats)
    ELSE IF response[1].op = "recalculate_manifest" /\ response[1].status = 200
    THEN Some(response[1].linking_stats)
    ELSE None

\* C27: the total_objects that link returns is the number of Catalog Entries
\* of the store and linked_objects the number of those with an assigned
\* Manifest Entry, also on a store without Manifest Entries.
C27_StatsAreCounts ==
    IsSome(ReturnedStats) =>
        /\ Get(ReturnedStats).total_objects = Cardinality(DOMAIN ManifestStore.objects)
        /\ Get(ReturnedStats).linked_objects = Cardinality(LinkedObjects(ManifestStore.objects))

\* what holds of C27: the counts are right on a store with Manifest Entries
C27_StatsWithEntries ==
    (IsSome(ReturnedStats) /\ DOMAIN ManifestStore.manifest_entries # {}) =>
        /\ Get(ReturnedStats).total_objects = Cardinality(DOMAIN ManifestStore.objects)
        /\ Get(ReturnedStats).linked_objects = Cardinality(LinkedObjects(ManifestStore.objects))

\* a link pass directly after the links have been cleared: the two direct
\* calls one after the other, or the recalculation, which makes both
LinksAfterClearing ==
    \/ history.last.op = "clear_manifest_links" /\ history'.last.op = "link"
    \/ history'.last.op = "recalculate_manifest" /\ history'.last.flag = "ok"

\* every Catalog Entry is assigned to the lowest id among the Manifest
\* Entries whose pattern matches its name, and to none when none matches
LowestMatchAssigned(store) ==
    \A n \in DOMAIN store.objects :
        store.objects[n].manifest_entry_id
          = IF Matching(store, n) = {} THEN None ELSE Some(MinOf(Matching(store, n)))

\* C28: after clear_manifest_links followed by
\* link_objects_to_manifest_entries, every Catalog Entry is assigned to the
\* lowest-id Manifest Entry whose pattern matches its name and is unassigned
\* exactly when no pattern matches it.
C28_ClearThenLink ==
    [][LinksAfterClearing => LowestMatchAssigned(files'[create_db_name(0)])]_vars

\* what holds of C28: the same when no UPDATE of the pass raised
C28_WithoutSkipped ==
    [][(LinksAfterClearing /\ history'.skipped = {})
          => LowestMatchAssigned(files'[create_db_name(0)])]_vars

RECURSIVE SumOf(_)
\* the sum of the elements of a sequence of numbers
SumOf(seq) == IF seq = <<>> THEN 0 ELSE Head(seq) + SumOf(Tail(seq))

\* the Fetch Run row of the store of thread t is there with status running
RowRunning(fs, t) ==
    /\ t \in DOMAIN threads
    /\ DbExists(fs, threads[t].db_name)
    /\ IsSome(fs[threads[t].db_name].fetch)
    /\ Get(fs[threads[t].db_name].fetch).status = "running"

\* record_count of the Fetch Run row of the store of thread t
RecordCount(fs, t) == Get(fs[threads[t].db_name].fetch).record_count

\* C29: while the Fetch Run row has status running, its record_count is a
\* multiple of batch_size, is at most the number of entries that the
\* batches upserted so far held (and, the names of the listing being
\* distinct, at most the number of Catalog Entries of the store), and no
\* step decreases it.
C29_ProgressOrdering ==
    /\ [](\A t \in DOMAIN threads :
            RowRunning(files, t) =>
               /\ RecordCount(files, t) % batch_size = 0
               /\ RecordCount(files, t) <= SumOf(threads[t].batches)
               /\ threads[t].listing.names >= threads[t].listing.len =>
                     RecordCount(files, t)
                       <= Cardinality(DOMAIN files[threads[t].db_name].objects))
    /\ [][\A t \in DOMAIN threads :
            (RowRunning(files, t) /\ RowRunning(files', t)) =>
               RecordCount(files', t) >= RecordCount(files, t)]_vars

\* the progress of the second full batch has been written and the thread
\* goes on
C29_Witness ==
    \E t \in DOMAIN threads :
        /\ RowRunning(files, t)
        /\ RecordCount(files, t) = 2 * batch_size
        /\ threads[t].pc = "loop"

\* the patterns that a request supplies, those that are not empty
SuppliedPatterns(args) ==
    (IF IsSome(args.regex) /\ Get(args.regex).kind # "empty" THEN <<Get(args.regex)>> ELSE <<>>)
      \o NotEmpty(args.regex_filters) \o NotEmpty(args.manifest_patterns)

\* the names of the store that one of the patterns matches
MatchedByOne(store, patterns) ==
    {n \in DOMAIN store.objects : \E i \in 1..Len(patterns) : _regexp_function(patterns[i], n)}

\* an export of the names for only patterns, n of them
ExportedFor(n) ==
    /\ response[1].op = "download_object_list"
    /\ response[1].status = 200
    /\ response[1].args.created_before = None
    /\ response[1].args.has_custom_time = None
    /\ Len(SuppliedPatterns(response[1].args)) = n

\* C30: the names exported for a list of more than 20 valid patterns, which
\* are combined into one alternation, are the names of the store that at
\* least one of the patterns matches.
C30_AlternationSelectsSame ==
    (\E n \in 21..22 : ExportedFor(n)) =>
        Range(response[1].content)
          = MatchedByOne(QueriedStore, SuppliedPatterns(response[1].args))

\* what holds of C30: the same for patterns without backreferences and
\* named groups, and for lists of at most 20 patterns
C30_WithoutGroups ==
    LET patterns == SuppliedPatterns(response[1].args)
    IN  (/\ \E n \in 1..22 : ExportedFor(n)
         /\ \/ Len(patterns) <= 20
            \/ \A i \in 1..Len(patterns) :
                  Backrefs(patterns[i]) = {} /\ GroupNames(patterns[i]) = {})
          => Range(response[1].content) = MatchedByOne(QueriedStore, patterns)

\* 21 patterns without groups have been combined and select two names of
\* the large store
C30_Witness ==
    /\ ExportedFor(21)
    /\ \A i \in 1..21 : Groups(SuppliedPatterns(response[1].args)[i]) = 0
    /\ Range(response[1].content) = {1, MaxPageSize + 1}

----------------------------------------------------------------------------
(* Properties of the start of a process.                                     *)

IsConstruct(h, p) == h.last.op = "construct" /\ h.last.proc = p

\* the lock file is older than StaleHours
IsStale(l, t) == l.exists /\ (t - l.mtime) > StaleHours * TicksPerHour

\* C31 as stated: the construction of an orchestrator removes the lock file
\* exactly when the file is older than StaleHours.
C31_RemovedExactlyWhenStale ==
    [][\A p \in Procs :
         IsConstruct(history', p) =>
            (~lock_file'.exists <=> (~lock_file.exists \/ IsStale(lock_file, now)))]_vars

\* C31 as amended: the construction of an orchestrator always completes; it
\* removes the lock file only when the file is older than StaleHours, and it
\* then removes it unless stat or remove fails (a failure that is logged and
\* ignored); a lock file of at most StaleHours is left as it is.
C31_StaleLockCleared ==
    /\ [](\A p \in Procs : ~up[p] => ENABLED Construct(p))
    /\ [][\A p \in Procs :
            IsConstruct(history', p) =>
               /\ up'[p]
               /\ ~IsStale(lock_file, now) => lock_file' = lock_file
               /\ lock_file' # lock_file =>
                     IsStale(lock_file, now) /\ lock_file' = NoLock
               /\ (IsStale(lock_file, now) /\ history'.last.flag = "cleared") =>
                     lock_file' = NoLock]_vars

\* a process has started and removed a lock file that was one tick older
\* than StaleHours
C31_Witness ==
    \E p \in Procs :
        /\ IsConstruct(history, p)
        /\ history.last.flag = "cleared"
        /\ up[p]
        /\ ~lock_file.exists
        /\ now = StaleHours * TicksPerHour + 1

\* a process has started and left a lock file of exactly StaleHours
C31_KeptAtThreshold ==
    \E p \in Procs :
        /\ IsConstruct(history, p)
        /\ lock_file = [exists |-> TRUE, mtime |-> 0]
        /\ now = StaleHours * TicksPerHour

----------------------------------------------------------------------------
(* Properties of the delete route.                                           *)

\* the stores of the runs whose ingestion thread has not ended
ActiveStores(ths, fs) ==
    {ths[t].db_name : t \in {u \in DOMAIN ths : ths[u].pc # "done"}} \cap DOMAIN fs

\* C32: no step of the delete route removes the store of a run whose
\* ingestion thread has not ended.
C32_ActiveRunNotDeleted ==
    [][history'.last.op \in {"delete_check", "delete_remove"} =>
          ActiveStores(threads, files) \subseteq DOMAIN files']_vars

\* what holds of C32: a delete request whose check of the running fetch finds
\* the run it names as the current fetch of the process, with its lock file,
\* is answered 409 fetch_running and removes nothing
C32_RefusedAtCheck ==
    [][\A p \in Procs :
         (/\ history'.last.op = "delete_check" /\ history'.last.proc = p
          /\ _is_fetch_running_locked(p)
          /\ \/ pending'[p] = Some(Pending("delete_fetch", Get(current_fetch[p]).db_name))
             \/ /\ pending'[p] = None
                /\ response'[p].db_name = Get(current_fetch[p]).db_name)
           => /\ files' = files
              /\ pending'[p] = None
              /\ response'[p] = Deletion(409, "fetch_running", Get(current_fetch[p]).db_name)]_vars

\* a run has been refused deletion while its thread works
C32_Refused ==
    /\ history.last.op = "delete_check"
    /\ response[1].op = "delete_fetch_route"
    /\ response[1].status = 409
    /\ \E t \in DOMAIN threads :
          threads[t].pc # "done" /\ threads[t].db_name = response[1].db_name

----------------------------------------------------------------------------
(* Properties of the upsert on a linked store.                               *)

\* the Manifest Entry reference of entry n of store db_name
LinkOf(fs, db_name, n) == fs[db_name].objects[n].manifest_entry_id

\* C33: insert_objects_batch leaves every entry of its batch without a
\* Manifest Entry reference, also one that was linked, and the references of
\* the other entries as they were; an entry without a reference gets one
\* only by a link pass.
C33_UpsertUnlinks ==
    [][\A db_name \in DOMAIN files :
         /\ history'.last.op = "insert_objects_batch" =>
              \A n \in DOMAIN files'[db_name].objects :
                 IF n \in BatchNames(history'.batch)
                 THEN LinkOf(files', db_name, n) = None
                 ELSE /\ n \in DOMAIN files[db_name].objects
                      /\ LinkOf(files', db_name, n) = LinkOf(files, db_name, n)
         /\ \A n \in DOMAIN files[db_name].objects :
              (LinkOf(files, db_name, n) = None /\ LinkOf(files', db_name, n) # None)
                 => history'.last.op = "link"]_vars

\* an entry that a link pass had linked has been upserted, another linked
\* entry has not
C33_Witness ==
    /\ history.last.op = "insert_objects_batch"
    /\ \E db_name \in DOMAIN files :
          \E n \in BatchNames(history.batch), m \in DOMAIN files[db_name].objects :
             /\ history.before[n].manifest_entry_id # None
             /\ LinkOf(files, db_name, n) = None
             /\ m \notin BatchNames(history.batch)
             /\ LinkOf(files, db_name, m) # None

----------------------------------------------------------------------------
(* Properties of the processing status.                                      *)

\* the processing status of the Manifest of a store, None without a Manifest
Processing(store) == IF IsSome(store.manifest) THEN Some(Get(store.manifest).status) ELSE None

\* C34: between the requests, when no link pass is executing, the status of
\* every stored Manifest is idle.
C34_IdleBetweenLinkPasses ==
    \A db_name \in DOMAIN files : Processing(files[db_name]) \in {None, Some("idle")}

\* what holds of C34: a link pass that finds Manifest Entries leaves the
\* status idle, one that finds none leaves it processing, and no other
\* request changes the status of a Manifest that stays
C34_IdleAfterEntries ==
    [][\A db_name \in DOMAIN files :
         /\ (/\ history'.last.op \in {"link", "recalculate_manifest"}
             /\ IsSome(files'[db_name].manifest)
             /\ response'[1].op = "link" \/ response'[1].status = 200)
              => Processing(files'[db_name])
                   = IF DOMAIN files'[db_name].manifest_entries = {}
                     THEN Some("processing") ELSE Some("idle")
         /\ history'.last.op \in {"clear_manifest_links", "clear_manifest"}
              => Processing(files'[db_name]) \in {None, Processing(files[db_name])}]_vars

\* a link pass over a Manifest without entries has returned
C34_LinkedWithoutEntries ==
    \E db_name \in DOMAIN files :
        /\ history.last.op = "link"
        /\ IsSome(files[db_name].manifest)
        /\ DOMAIN files[db_name].manifest_entries = {}

----------------------------------------------------------------------------
(* Properties of the status of a run.                                        *)

TerminalStatuses == {"success", "error"}

\* C35: when the ingestion thread of a run has ended, the Fetch Run row of
\* its store holds the status success or error.
C35_TerminalStatus ==
    \A t \in DOMAIN threads :
        threads[t].pc = "done" => FetchRow(t).status \in TerminalStatuses

\* what holds of C35: the same for the threads that no exception has left
C35_TerminalUnlessEscaped ==
    \A t \in DOMAIN threads :
        (threads[t].pc = "done" /\ ~threads[t].escaped) =>
            FetchRow(t).status \in TerminalStatuses

\* an ingestion whose insert failed has ended with the status error
C35_EndedWithError ==
    \E t \in DOMAIN threads :
        /\ threads[t].pc = "done"
        /\ threads[t].error = Some("insert failed")
        /\ FetchRow(t).status = "error"

----------------------------------------------------------------------------
(* Properties of the links.                                                  *)

\* the Manifest Entry that entry n of the store refers to exists and its
\* pattern matches n
LinkIntact(store, n) ==
    LET id == Get(store.objects[n].manifest_entry_id)
    IN  /\ id \in DOMAIN store.manifest_entries
        /\ _regexp_function(store.manifest_entries[id].regex_pattern, n)

\* C36: every Catalog Entry with a Manifest Entry reference refers to a
\* Manifest Entry of its store whose pattern matches its name.
C36_LinksIntact ==
    \A db_name \in DOMAIN files :
        \A n \in LinkedObjects(files[db_name].objects) : LinkIntact(files[db_name], n)

\* what holds of C36: the same while no clear request stands between its two
\* transactions and none has ended since the last link pass
C36_IntactUntilClear ==
    [][(C36_LinksIntact /\ history'.last.op # "clear_manifest_delete") => C36_LinksIntact']_vars

\* an entry is linked to a Manifest Entry whose pattern matches it
C36_Linked ==
    \E db_name \in DOMAIN files :
        \E n \in LinkedObjects(files[db_name].objects) : LinkIntact(files[db_name], n)

----------------------------------------------------------------------------
(* Properties of a failed load.                                              *)

\* C37: a load request that fails on a store that holds a Manifest leaves the
\* Manifest and the Manifest Entries as they were and every Catalog Entry
\* without a Manifest Entry reference, its other fields as they were; on a
\* store without a Manifest it leaves the Catalog Entries as they were.
C37_FailedLoadUnlinks ==
    [][\A db_name \in DOMAIN files :
         (history'.last.op = "parse_manifest" /\ history'.last.flag = "failed") =>
            /\ files'[db_name].manifest = files[db_name].manifest
            /\ files'[db_name].manifest_entries = files[db_name].manifest_entries
            /\ files'[db_name].objects =
                  IF IsSome(files[db_name].manifest)
                  THEN UnlinkAll(files[db_name].objects)
                  ELSE files[db_name].objects]_vars

\* a load has failed on a store whose entries were linked, and none is now
C37_Witness ==
    /\ history.last.op = "parse_manifest"
    /\ history.last.flag = "failed"
    /\ \E n \in DOMAIN history.before : IsSome(history.before[n].manifest_entry_id)
    /\ \A db_name \in DOMAIN files :
          /\ IsSome(files[db_name].manifest)
          /\ DOMAIN files[db_name].manifest_entries # {}
          /\ LinkedObjects(files[db_name].objects) = {}

\* the Fetch Run row of store n
RowOf(fs, n) == Get(fs[n].fetch)

\* C38: a Fetch Run row is created with the status running; the status
\* canceled is never stored; and no step changes the status, the count, the
\* end timestamp or the error of a row that holds success or error.
C38_StatusMonotone ==
    /\ [](\A n \in list_fetches(files) : RowOf(files, n).status \in {"running"} \cup TerminalStatuses)
    /\ [][\A n \in list_fetches(files') :
            IF n \in list_fetches(files)
            THEN RowOf(files, n).status \in TerminalStatuses =>
                    /\ RowOf(files', n).status = RowOf(files, n).status
                    /\ RowOf(files', n).record_count = RowOf(files, n).record_count
                    /\ RowOf(files', n).ended_at = RowOf(files, n).ended_at
                    /\ RowOf(files', n).error = RowOf(files, n).error
            ELSE /\ RowOf(files', n).status = "running"
                 /\ RowOf(files', n).ended_at = None]_vars

\* a second run has been started and has ended after the first one had
\* ended with an error
C38_Witness ==
    \E n, m \in list_fetches(files) :
        /\ n # m
        /\ RowOf(files, n).status = "error"
        /\ RowOf(files, m).status = "success"
        /\ \A t \in DOMAIN threads : threads[t].pc = "done"

\* the page queries of a walk: the pages of the answered query, with its
\* page size, filters and sort, that lie within the selected entries
WalkPages ==
    {page \in 1..(MaxNames + 2) :
        (page - 1) * response[1].page_size
            < Cardinality(Selected(QueriedStore, response[1].filters))}

\* the results that the query of `page` of the walk may return
WalkResults(page) ==
    get_objects_page(QueriedStore, page, response[1].page_size,
                     response[1].filters, response[1].sort)

\* the selected entries share no creation timestamp, a missing one included
DistinctTimes ==
    \A n, m \in Selected(QueriedStore, response[1].filters) :
        n # m => TimeKey(QueriedStore.objects[n]) # TimeKey(QueriedStore.objects[m])

\* an entry of the answered page is on no other page of the walk, and each
\* selected entry is on some page of it
Partitioned ==
    /\ \A i, j \in 1..Len(response[1].result.items) :
          response[1].result.items[i].name = response[1].result.items[j].name => i = j
    /\ \A page \in WalkPages \ {response[1].page} : \A result \in WalkResults(page) :
          Range(ItemNames(result)) \cap Range(ItemNames(response[1].result)) = {}
    /\ UNION {Range(ItemNames(result)) :
                result \in UNION {WalkResults(page) : page \in WalkPages}}
          = Selected(QueriedStore, response[1].filters)

C39_PartitionWithoutTies ==
    (/\ response[1].op = "get_objects_page"
     /\ response[1].page_size >= 1
     /\ response[1].page \in WalkPages
     /\ response[1].sort \in {"name_asc", "name_desc"} \/ DistinctTimes) => Partitioned

\* the second page of a walk with page size 1 under a creation-time sort
\* has been answered for entries of distinct creation timestamps
C39_DistinctPaged ==
    /\ response[1].op = "get_objects_page"
    /\ response[1].sort \in {"time_created_asc", "time_created_desc"}
    /\ response[1].page_size = 1
    /\ response[1].page = 2
    /\ Len(response[1].result.items) = 1
    /\ Cardinality(Selected(QueriedStore, response[1].filters)) >= 2
    /\ DistinctTimes

====
